---- MODULE Spec2Model ----
(***************************************************************************)
(* Tracking, team classification and metrics of the football analysis      *)
(* engine: PlayerTracker, BallTracker (player_tracker.cpp, ball_tracker.cpp)*)
(* and MetricsCalculator (metrics.cpp).                                     *)
(*                                                                          *)
(* Geometry.  All coordinates and lengths are in HALF pixels, so that the   *)
(* code's `width / 2.0f` is exact on integers: a detection box (cv::Rect,   *)
(* integer pixels) has even x, y, w, h here.                                *)
(*                                                                          *)
(* Floating point.  calculate_iou divides two floats and returns the float  *)
(* quotient widened to double.  An IOU is kept as the exact fraction        *)
(* num/den of two small integers; the operators that compare IOUs state     *)
(* what the float/double comparison of the code yields on such fractions.   *)
(***************************************************************************)
EXTENDS Integers, Sequences, FiniteSets, TLC

VARIABLES
    tracks_,            \* PlayerTracker::tracks_
    next_track_id_,     \* PlayerTracker::next_track_id_
    team_assignments_,  \* PlayerTracker::team_assignments_ (id -> label)
    last_update,        \* history: inputs and association of the last update call
    km_labels,          \* history: the labels cv::kmeans returned to the last assign_teams
    run,                \* history: per id, consecutive update calls without a match
    last_op,            \* history: the operation performed last
    kf_,                \* BallTracker::kf_
    is_tracking_,       \* BallTracker::is_tracking_
    frames_since_detection_,  \* BallTracker::frames_since_detection_
    track_,             \* BallTracker::track_
    ball_call,          \* history: the last BallTracker::update call
    ball_seen,          \* history: some call selected a detection
    ball_misses,        \* history: consecutive calls that selected none
    player_metrics_,           \* MetricsCalculator::player_metrics_
    ball_metrics_,             \* MetricsCalculator::ball_metrics_
    last_player_positions_,    \* MetricsCalculator::last_player_positions_
    player_total_distances_,   \* MetricsCalculator::player_total_distances_
    last_player_frame_counts_, \* MetricsCalculator::last_player_frame_counts_
    player_frame_counts_,      \* MetricsCalculator::player_frame_counts_
    video_fps_,                \* MetricsCalculator::video_fps_
    metrics_call,              \* history: fps and number of tracks of the last process_frame
    pc,                 \* position of the job function (AnalyzeVideo / StreamAnalysis)
    request,            \* the VideoRequest and the video source it names
    response,           \* AnalyzeVideo's `response` object
    responses,          \* the messages written to the caller's stream, in order
    rpc_status,         \* the grpc::Status the job function returned
    homography_matrix_, \* Calibration::homography_matrix_
    cap,                \* the cv::VideoCapture: opened, frames read so far
    video_fps,          \* AnalyzeVideo's local video_fps
    total_frames,       \* AnalyzeVideo's local total_frames
    current_frame_idx,  \* the job function's local current_frame_idx
    cancelled,          \* ServerContext::IsCancelled()
    frames_after_cancel,\* history: frames read after the cancellation was raised
    assign_calls,       \* history: assign_teams calls of the job
    save_calls,         \* history: save_to_csv calls of the job
    player_csv,         \* the rows of player_metrics.csv
    ball_csv,           \* the rows of ball_metrics.csv
    stream_in,          \* the chunks the caller has sent and the server not yet read
    chunks_sent,        \* history: number of chunks the caller has sent
    client_done,        \* the caller has closed its side of the stream
    first_chunk,        \* StreamAnalysis's first_chunk
    fifo,               \* the named pipe: exists, its two ends, the bytes in it
    written,            \* history: the payloads that went into the pipe, in order
    feeder_pc,          \* position of the feeder thread
    feeder_chunk,       \* the feeder's local chunk
    streaming_done,     \* StreamAnalysis's streaming_done
    error_occurred,     \* StreamAnalysis's error_occurred
    exit_path,          \* the way StreamAnalysis leaves: normal, open_failed, exception
    joined,             \* history: feeder_thread.join() has returned
    unlinked,           \* history: unlink(fifo_path) was called
    what,               \* the text of the error StreamAnalysis returns
    jobs,               \* the concurrent jobs of the server: position, request, rows
    fs,                 \* the files the jobs name: exists, the running jobs that use it
    foreign_writes,     \* history: writes to a file another running job uses
    calibration_path,   \* the file the Calibration was constructed from
    transform_call,     \* history: input and output of the last Calibration::transform
    iou_call            \* history: the boxes and the results of the last calculate_iou calls

playerVars == <<tracks_, next_track_id_, team_assignments_, last_update, km_labels, run>>
ballVars == <<kf_, is_tracking_, frames_since_detection_, track_, ball_call,
              ball_seen, ball_misses>>
metricsVars == <<player_metrics_, ball_metrics_, last_player_positions_,
                 player_total_distances_, last_player_frame_counts_,
                 player_frame_counts_, video_fps_, metrics_call>>
jobVars == <<pc, request, response, responses, rpc_status, homography_matrix_, cap,
             video_fps, total_frames, current_frame_idx, cancelled,
             frames_after_cancel, assign_calls, save_calls, player_csv, ball_csv>>
liveVars == <<stream_in, chunks_sent, client_done, first_chunk, fifo, written,
              feeder_pc, feeder_chunk, streaming_done, error_occurred, exit_path,
              joined, unlinked, what>>
hostVars == <<jobs, fs, foreign_writes>>
calibVars == <<calibration_path, transform_call>>
iouVars == <<iou_call>>
sideVars == <<hostVars, calibVars, iouVars>>
vars == <<playerVars, last_op, ballVars, metricsVars, jobVars, liveVars, sideVars>>

----------------------------------------------------------------------------
(* Bounds *)

\* number of player ids a run may create
MaxId == 2
\* detections passed to one PlayerTracker::update call
MaxDets == 2
\* largest speed (half pixels per frame) the motion filter state may take
MaxVel == 2
\* detections passed to one BallTracker::update call
MaxBallDets == 2
\* confidences are the multiples k / ConfSteps of 1 / ConfSteps, k in 0..ConfSteps
ConfSteps == 2
\* the count of consecutive missed calls is kept up to MissCap
MissCap == 12
\* players in the frame when assign_teams is studied on its own
MaxPlayers == 9
\* rows MetricsCalculator may hold: player rows, ball rows
MaxRows == 3
MaxBallRows == 1
\* frames of the longest video
MaxFrames == 31
\* chunks the caller sends in one live job
MaxChunks == 3
\* payloads the pipe holds before a write blocks
PipeCap == 2

----------------------------------------------------------------------------
(* Program constants *)

\* PlayerTracker::max_frames_to_skip_
max_frames_to_skip_ == 5
\* BallTracker::max_frames_to_skip_
ball_max_frames_to_skip_ == 10

Black == 0

Max(a, b) == IF a >= b THEN a ELSE b
Min(a, b) == IF a <= b THEN a ELSE b
Abs(a) == IF a >= 0 THEN a ELSE -a

Range(s) == {s[i] : i \in DOMAIN s}

\* sequences over S of length at most n
SeqUpTo(S, n) == UNION {[1..k -> S] : k \in 0..n}

----------------------------------------------------------------------------
(* Inputs *)

Box(x, y, w, h) == [x |-> x, y |-> y, w |-> w, h |-> h]

\* the pixel boxes (0,0,5,2), (1,1,3,1), (-1,0,5,2) and (20,0,5,2):
\* B lies inside A and inside E with IOU exactly 3/10, E is A moved one
\* pixel to the left (IOU 2/3) and reaches out of the frame, D overlaps none
BoxA == Box(0, 0, 10, 4)
BoxB == Box(2, 2, 6, 2)
BoxE == Box(-2, 0, 10, 4)
BoxD == Box(40, 0, 10, 4)

PlayerBoxes == {BoxA, BoxB, BoxD, BoxE}

\* struct Detection; PlayerTracker::update reads only the box
Detection(b, c) == [box |-> b, confidence |-> c]

PlayerDetections == {Detection(b, 1) : b \in PlayerBoxes}

\* the ball at pixel boxes (2,2,2,2) and (4,2,2,2), confidence k / ConfSteps
BallBoxes == {Box(4, 4, 4, 4), Box(8, 4, 4, 4)}
BallDetections == {Detection(b, c) : b \in BallBoxes, c \in 0..ConfSteps}

\* a frame of 100 x 20 pixels: its size and the HSV colour of each of its ten
\* vertical bands of 10 pixels (hsv[1] is the leftmost band)
Frame(hsv) == [cols |-> 200, rows |-> 40, hsv |-> hsv]

\* the frame whose pixels all have colour c
UniformFrame(c) == Frame([b \in 1..10 |-> c])

\* frames passed to update: to the calls of Spec, and to those of SpecLifecycle
Frames == {UniformFrame(1)}
FramesTwoColours == {UniformFrame(1), UniformFrame(2)}

\* frames whose bands are coloured 1, 2, 3 from left to right
BandedFrames ==
    {Frame(hsv) : hsv \in {h \in [1..10 -> 1..3] :
                              \A b \in 1..9 : h[b] <= h[b + 1]}}

----------------------------------------------------------------------------
(* KalmanFilter (utils/kalman_filter.cpp) *)

\* KalmanFilter::KalmanFilter: statePost is zero, init not yet called
KFnew == [x |-> 0, y |-> 0, vx |-> 0, vy |-> 0, inited |-> FALSE]

\* KalmanFilter::init
KFinit(kf, p) == [x |-> p.x, y |-> p.y, vx |-> 0, vy |-> 0, inited |-> TRUE]

\* KalmanFilter::predict: state := F * state with dt = 1
KFpredict(kf) == [kf EXCEPT !.x = kf.x + kf.vx, !.y = kf.y + kf.vy]

\* KalmanFilter::correct: state := state + K * (z - H state).  The gain K is
\* computed inside cv::KalmanFilter from the covariances; on the integer grid
\* it is the unit gain: the position takes the measurement (measurement noise
\* 1e-2) and the velocity takes the innovation, kept within MaxVel.
KFcorrect(kf, z) ==
    LET nvx == kf.vx + (z.x - kf.x)
        nvy == kf.vy + (z.y - kf.y)
        ok  == Abs(nvx) <= MaxVel /\ Abs(nvy) <= MaxVel
    IN [kf EXCEPT !.x = z.x, !.y = z.y,
                  !.vx = IF ok THEN nvx ELSE kf.vx,
                  !.vy = IF ok THEN nvy ELSE kf.vy]

\* KalmanFilter::get_state
KFget_state(kf) == [x |-> kf.x, y |-> kf.y]

----------------------------------------------------------------------------
(* PlayerTracker (detection/player_tracker.cpp) *)

\* the significand of a `float` has 24 binary digits
FloatDigits == 24

\* the exponent e of the float nearest to the integer n >= 0: the floats
\* around n are the multiples of 2^e
FloatExponent(n) ==
    CHOOSE e \in 0..6 :
        /\ n < 2^(FloatDigits + e)
        /\ e = 0 \/ n >= 2^(FloatDigits + e - 1)

\* the multiple of unit nearest to a >= 0, ties to the even multiple
FloatRound(a, unit) ==
    (IF 2 * (a % unit) > unit \/ (2 * (a % unit) = unit /\ (a \div unit) % 2 = 1)
     THEN a \div unit + 1 ELSE a \div unit) * unit

\* the result of a float operation whose exact result is n (in any unit that
\* is a power of two): n rounded to FloatDigits binary digits, ties to even
Float(n) ==
    IF Abs(n) < 2^FloatDigits THEN n
    ELSE IF n >= 0 THEN FloatRound(n, 2^FloatExponent(n))
    ELSE -FloatRound(-n, 2^FloatExponent(-n))

\* an IOU value: the float quotient num/den
Iou(n, d) == [num |-> n, den |-> d]

\* PlayerTracker::calculate_iou in float arithmetic (lines 14-24)
calculate_iou_float(box1, box2) ==
    LET x1 == Max(box1.x, box2.x)
        y1 == Max(box1.y, box2.y)
        x2 == Min(Float(box1.x + box1.w), Float(box2.x + box2.w))
        y2 == Min(Float(box1.y + box1.h), Float(box2.y + box2.h))
        intersection_area == Float(Max(0, Float(x2 - x1)) * Max(0, Float(y2 - y1)))
        box1_area == Float(box1.w * box1.h)
        box2_area == Float(box2.w * box2.h)
        union_area == Float(Float(box1_area + box2_area) - intersection_area)
    IN IF union_area > 0 THEN Iou(intersection_area, union_area) ELSE Iou(0, 1)

\* the same on operands all of whose sums, differences and products are
\* integers of fewer than FloatDigits binary digits: every float operation
\* is exact
calculate_iou_exact(box1, box2) ==
    LET x1 == Max(box1.x, box2.x)
        y1 == Max(box1.y, box2.y)
        x2 == Min(box1.x + box1.w, box2.x + box2.w)
        y2 == Min(box1.y + box1.h, box2.y + box2.h)
        intersection_area == Max(0, x2 - x1) * Max(0, y2 - y1)
        box1_area == box1.w * box1.h
        box2_area == box2.w * box2.h
        union_area == box1_area + box2_area - intersection_area
    IN IF union_area > 0 THEN Iou(intersection_area, union_area) ELSE Iou(0, 1)

\* a box whose corners are within 2^11 units of the origin: its area and the
\* sum of two such areas have fewer than FloatDigits binary digits
SmallBox(b) ==
    /\ Abs(b.x) + b.w < 2^11
    /\ Abs(b.y) + b.h < 2^11

\* PlayerTracker::calculate_iou
calculate_iou(box1, box2) ==
    IF SmallBox(box1) /\ SmallBox(box2)
    THEN calculate_iou_exact(box1, box2)
    ELSE calculate_iou_float(box1, box2)

\* mutant of IouGreater: `iou >= max_iou`, the last of equal IOUs is taken
IouGreaterOrEqual(a, b) == a.num * b.den >= b.num * a.den

\* `iou > max_iou` on two doubles that are float quotients of small integers:
\* distinct fractions round to distinct floats, equal fractions to equal ones
IouGreater(a, b) == a.num * b.den > b.num * a.den

\* `max_iou > 0.3`: max_iou is a float quotient widened to double and 0.3 is
\* a double literal.  The float nearest to 3/10 is 0.300000011920929, above
\* the double 0.3, so the fraction 3/10 itself passes the test; every
\* smaller fraction of small integers rounds below 0.3.
ExceedsIouThreshold(a) == 10 * a.num >= 3 * a.den

\* bottom-centre of a detection box (update, lines 96-97 and 123-124)
detection_center(b) == [x |-> b.x + b.w \div 2, y |-> b.y + b.h]

\* the bounds test of update (lines 105 and 131)
InsideFrame(b, frame) ==
    /\ b.x >= 0
    /\ b.y >= 0
    /\ b.x + b.w <= frame.cols
    /\ b.y + b.h <= frame.rows

\* PlayerTracker::get_dominant_color of the ROI `b` of `frame` (b lies inside
\* the frame): the central region is Rect(w*0.25, h*0.25, w*0.5, h*0.5) in
\* integer pixels; the k=1 k-means centre of a region within one band of the
\* frame is the colour of that band
get_dominant_color(frame, b) ==
    LET w == b.w \div 2
        h == b.h \div 2
    IN IF w = 0 \/ h = 0 \/ w \div 2 = 0 \/ h \div 2 = 0 THEN Black
       ELSE frame.hsv[(b.x + b.w \div 2) \div 20 + 1]

\* update step 1, one track
PredictTrack(t) ==
    LET kf == KFpredict(t.kf)
    IN [t EXCEPT !.kf = kf,
                 !.last_bbox.x = kf.x - t.last_bbox.w \div 2,
                 !.last_bbox.y = kf.y - t.last_bbox.h,
                 !.frames_since_update = t.frames_since_update + 1]

\* update step 1
PredictAll(ts) == [i \in DOMAIN ts |-> PredictTrack(ts[i])]

\* mutant of IsCandidate: a matched detection stays a candidate
IsCandidateAlways(matched_detections, j) == TRUE

\* `if (!matched_detections[j])` (line 86)
IsCandidate(matched_detections, j) == ~matched_detections[j]

\* the inner loop of step 2 (lines 85-93), from detection j on
RECURSIVE ScanDetections(_, _, _, _, _, _)
ScanDetections(bbox, detections, matched_detections, j, max_iou, best_match_idx) ==
    IF j > Len(detections)
    THEN [max_iou |-> max_iou, best_match_idx |-> best_match_idx]
    ELSE LET iou == calculate_iou(bbox, detections[j].box)
         IN IF IsCandidate(matched_detections, j) /\ IouGreater(iou, max_iou)
            THEN ScanDetections(bbox, detections, matched_detections, j + 1, iou, j)
            ELSE ScanDetections(bbox, detections, matched_detections, j + 1,
                                max_iou, best_match_idx)

\* mutant of MatchTrack: frames_since_update is not reset
MatchTrackKeepCount(t, d, frame) ==
    [t EXCEPT !.kf = KFcorrect(t.kf, detection_center(d.box)),
              !.last_bbox = d.box,
              !.dominant_color = IF InsideFrame(d.box, frame)
                                 THEN get_dominant_color(frame, d.box)
                                 ELSE t.dominant_color]

\* the body of `if (max_iou > 0.3)` (lines 96-108)
MatchTrack(t, d, frame) ==
    [t EXCEPT !.kf = KFcorrect(t.kf, detection_center(d.box)),
              !.last_bbox = d.box,
              !.frames_since_update = 0,
              !.dominant_color = IF InsideFrame(d.box, frame)
                                 THEN get_dominant_color(frame, d.box)
                                 ELSE t.dominant_color]

\* the outer loop of step 2 (lines 81-110), from track i on
RECURSIVE Associate(_, _, _, _, _, _)
Associate(ts, detections, frame, i, matched_detections, matches) ==
    IF i > Len(ts)
    THEN [tracks |-> ts, matched_detections |-> matched_detections,
          matches |-> matches]
    ELSE LET s == ScanDetections(ts[i].last_bbox, detections, matched_detections,
                                 1, Iou(0, 1), -1)
         IN IF ExceedsIouThreshold(s.max_iou)
            THEN Associate(
                   [ts EXCEPT ![i] = MatchTrack(ts[i], detections[s.best_match_idx],
                                                frame)],
                   detections, frame, i + 1,
                   [matched_detections EXCEPT ![s.best_match_idx] = TRUE],
                   matches \cup {<<ts[i].id, s.best_match_idx>>})
            ELSE Associate(ts, detections, frame, i + 1,
                           matched_detections, matches)

\* mutant of IsStale: a track is kept one call longer
IsStaleOneLater(t) == t.frames_since_update > max_frames_to_skip_ + 1

\* mutant of IsStale: the threshold taken inclusively
IsStaleInclusive(t) == t.frames_since_update >= max_frames_to_skip_

\* the predicate of step 3 (line 115)
IsStale(t) == t.frames_since_update > max_frames_to_skip_

\* update step 3
RemoveStale(ts) == SelectSeq(ts, LAMBDA t : ~IsStale(t))

\* mutant of NewTrackId: the id taken from the number of live tracks
NewTrackIdFromCount(next_id, live) == Len(live)

\* the id given to a new track (line 122): next_track_id_++
NewTrackId(next_id, live) == next_id

\* mutant of NewTrack: the filter of the new track is left as constructed
NewTrackWithoutInit(id, d, frame) ==
    [id |-> id,
     kf |-> KFnew,
     last_bbox |-> d.box,
     frames_since_update |-> 0,
     dominant_color |-> IF InsideFrame(d.box, frame)
                        THEN get_dominant_color(frame, d.box)
                        ELSE Black]

\* one new track of step 4 (lines 121-137)
NewTrack(id, d, frame) ==
    [id |-> id,
     kf |-> KFinit(KFnew, detection_center(d.box)),
     last_bbox |-> d.box,
     frames_since_update |-> 0,
     dominant_color |-> IF InsideFrame(d.box, frame)
                        THEN get_dominant_color(frame, d.box)
                        ELSE Black]

\* update step 4 (lines 119-139), from detection i on
RECURSIVE CreateTracks(_, _, _, _, _, _)
CreateTracks(ts, next_id, detections, frame, matched_detections, i) ==
    IF i > Len(detections)
    THEN [tracks |-> ts, next_track_id |-> next_id]
    ELSE IF ~matched_detections[i]
         THEN CreateTracks(
                Append(ts, NewTrack(NewTrackId(next_id, ts), detections[i], frame)),
                next_id + 1, detections, frame, matched_detections, i + 1)
         ELSE CreateTracks(ts, next_id, detections, frame, matched_detections, i + 1)

\* PlayerTracker::get_tracks
get_tracks == [i \in DOMAIN tracks_ |-> <<tracks_[i].id, KFget_state(tracks_[i].kf)>>]

LiveIds(ts) == {ts[i].id : i \in DOMAIN ts}

\* PlayerTracker::update(detections, frame)
Update(detections, frame) ==
    LET predicted == PredictAll(tracks_)
        assoc == Associate(predicted, detections, frame, 1,
                           [j \in DOMAIN detections |-> FALSE], {})
        kept == RemoveStale(assoc.tracks)
        made == CreateTracks(kept, next_track_id_, detections, frame,
                             assoc.matched_detections, 1)
        matchedIds == {m[1] : m \in assoc.matches}
    IN /\ made.next_track_id <= MaxId
       /\ tracks_' = made.tracks
       /\ next_track_id_' = made.next_track_id
       /\ last_update' = [detections |-> detections,
                          predicted |-> [i \in DOMAIN predicted |->
                                          [id |-> predicted[i].id,
                                           last_bbox |-> predicted[i].last_bbox]],
                          matches |-> assoc.matches]
       /\ run' = [id \in 0..(made.next_track_id - 1) |->
                    IF id \in matchedIds \/ id >= next_track_id_ THEN 0
                    ELSE IF id \in LiveIds(tracks_) THEN run[id] + 1
                    ELSE run[id]]

\* mutant of UpdateOnly: the update call drops the team assignments
UpdateClearsAssignments ==
    /\ last_op' = "update"
    /\ team_assignments_' = [id \in {} |-> "Unknown"]
    /\ UNCHANGED <<km_labels, ballVars, metricsVars, jobVars, liveVars, sideVars>>

\* what an update call leaves alone, outside a job
UpdateOnly ==
    /\ last_op' = "update"
    /\ UNCHANGED <<team_assignments_, km_labels, ballVars, metricsVars, jobVars,
                   liveVars, sideVars>>

UpdateAction ==
    \E detections \in SeqUpTo(PlayerDetections, MaxDets), frame \in Frames :
        Update(detections, frame) /\ UpdateOnly

\* update calls whose detections are the two players standing apart
UpdateApart ==
    \E detections \in SeqUpTo({Detection(BoxA, 1), Detection(BoxD, 1)}, MaxDets),
       frame \in FramesTwoColours :
        Update(detections, frame) /\ UpdateOnly

----------------------------------------------------------------------------
(* PlayerTracker::assign_teams *)

\* an empty std::map<int, std::string>
EmptyMap == [id \in {} |-> "Unknown"]

\* m[k] = v on a std::map
MapPut(m, k, v) == [x \in DOMAIN m \cup {k} |-> IF x = k THEN v ELSE m[x]]

\* the number of clusters (lines 169-173)
NumClusters(n) == IF Min(n, 3) < 2 THEN n ELSE Min(n, 3)

\* cluster_to_track_ids[l] (lines 181-185): the ids labelled l, in track order
RECURSIVE ClusterTrackIds(_, _, _, _)
ClusterTrackIds(ts, labels, l, i) ==
    IF i > Len(ts) THEN <<>>
    ELSE IF labels[i] = l
         THEN <<ts[i].id>> \o ClusterTrackIds(ts, labels, l, i + 1)
         ELSE ClusterTrackIds(ts, labels, l, i + 1)

\* operator< of std::vector<int>
RECURSIVE VecLess(_, _)
VecLess(a, b) ==
    IF b = <<>> THEN FALSE
    ELSE IF a = <<>> THEN TRUE
    ELSE IF a[1] # b[1] THEN a[1] < b[1]
    ELSE VecLess(Tail(a), Tail(b))

\* mutant of PairLess: the order reversed, so that the sort is ascending
PairGreater(a, b) ==
    \/ b.size < a.size
    \/ a.size = b.size /\ VecLess(b.track_ids, a.track_ids)

\* operator< of std::pair<int, std::vector<int>>
PairLess(a, b) ==
    \/ a.size < b.size
    \/ a.size = b.size /\ VecLess(a.track_ids, b.track_ids)

\* sorted_clusters before sorting (lines 188-191): one entry per label in use
ClusterSet(ts, labels) ==
    {[size |-> Len(ClusterTrackIds(ts, labels, l, 1)),
      track_ids |-> ClusterTrackIds(ts, labels, l, 1)] : l \in Range(labels)}

\* std::sort(rbegin, rend) (line 192): descending
RECURSIVE SortDescending(_)
SortDescending(S) ==
    IF S = {} THEN <<>>
    ELSE LET top == CHOOSE c \in S : \A d \in S \ {c} : PairLess(d, c)
         IN <<top>> \o SortDescending(S \ {top})

\* the label chosen for sorted_clusters[i] (lines 201-217); i counts from 0
ClusterLabel(i, size, assigned_labels) ==
    IF i = 0 /\ "Team A" \notin assigned_labels THEN "Team A"
    ELSE IF i = 1 /\ "Team B" \notin assigned_labels THEN "Team B"
    ELSE IF size <= 2 /\ "Referee" \notin assigned_labels THEN "Referee"
    ELSE "Unknown"

\* the inner loop (lines 219-221)
RECURSIVE PutAll(_, _, _)
PutAll(m, track_ids, label) ==
    IF track_ids = <<>> THEN m
    ELSE PutAll(MapPut(m, track_ids[1], label), Tail(track_ids), label)

\* the labelling loop (lines 198-222), from sorted_clusters[i] on (i from 0)
RECURSIVE LabelClusters(_, _, _, _)
LabelClusters(sorted_clusters, i, assigned_labels, m) ==
    IF i >= Len(sorted_clusters) THEN m
    ELSE LET c == sorted_clusters[i + 1]
             current_label == ClusterLabel(i, c.size, assigned_labels)
         IN LabelClusters(sorted_clusters, i + 1,
                          IF current_label = "Unknown" THEN assigned_labels
                          ELSE assigned_labels \cup {current_label},
                          PutAll(m, c.track_ids, current_label))

\* mutant of ClearAssignments: the map is not cleared
KeepAssignments(m) == m

\* team_assignments_.clear() (line 195)
ClearAssignments(m) == EmptyMap

\* lines 180-222 for the labels k-means returned
TeamsFromLabels(ts, labels, m) ==
    LabelClusters(SortDescending(ClusterSet(ts, labels)), 0, {}, ClearAssignments(m))

\* cv::kmeans(all_colors_hsv, K, labels, ..., KMEANS_PP_CENTERS, ...): the
\* centres are seeded at random; each row is labelled by its nearest centre,
\* so any labelling of the rows by 0..K-1 that gives rows of equal colour the
\* same label is a possible result
KMeansLabels(ts, K) ==
    LET colours == {ts[i].dominant_color : i \in DOMAIN ts}
    IN {[i \in DOMAIN ts |-> f[ts[i].dominant_color]] :
            f \in [colours -> 0..(K - 1)]}

\* PlayerTracker::assign_teams
assign_teams ==
    IF tracks_ = <<>>
    THEN UNCHANGED <<team_assignments_, km_labels>>
    ELSE \E labels \in KMeansLabels(tracks_, NumClusters(Len(tracks_))) :
             /\ km_labels' = labels
             /\ team_assignments_' = TeamsFromLabels(tracks_, labels,
                                                     team_assignments_)

\* an assign_teams call outside a job
AssignTeams ==
    /\ assign_teams
    /\ last_op' = "assign_teams"
    /\ UNCHANGED <<tracks_, next_track_id_, last_update, run, ballVars, metricsVars,
                   jobVars, liveVars, sideVars>>

----------------------------------------------------------------------------
(* BallTracker (detection/ball_tracker.cpp) *)

ZeroPoint == [x |-> 0, y |-> 0]

\* the track_ value {-1, {}}
NoTrack == [id |-> -1, pos |-> ZeroPoint]

\* `det.confidence > max_confidence` (line 236)
BetterBall(confidence, max_confidence) == confidence > max_confidence

\* the loop of lines 235-240 from detection i on; best_ball is an index, 0 for
\* nullptr; max_confidence starts at 0.0f
RECURSIVE ScanBall(_, _, _, _)
ScanBall(detections, i, max_confidence, best_ball) ==
    IF i > Len(detections) THEN best_ball
    ELSE IF BetterBall(detections[i].confidence, max_confidence)
         THEN ScanBall(detections, i + 1, detections[i].confidence, i)
         ELSE ScanBall(detections, i + 1, max_confidence, best_ball)

\* mutant of BallLost: the ball is kept one call longer
BallLostOneLater(n) == n > ball_max_frames_to_skip_ + 1

\* mutant of BallLost: the threshold taken inclusively
BallLostInclusive(n) == n >= ball_max_frames_to_skip_

\* `frames_since_detection_ > max_frames_to_skip_` (line 255)
BallLost(n) == n > ball_max_frames_to_skip_

\* BallTracker::update(detections)
BallUpdate(detections) ==
    LET best_ball == ScanBall(detections, 1, 0, 0)
        center == detection_center(detections[best_ball].box)
        found == best_ball # 0
        count == frames_since_detection_ + 1
        \* state after the if / else of lines 242-262
        mid == IF found
               THEN [kf |-> IF ~is_tracking_ THEN KFinit(kf_, center)
                            ELSE KFcorrect(kf_, center),
                     tracking |-> TRUE, count |-> 0, track |-> track_, predicts |-> 0]
               ELSE IF is_tracking_
               THEN IF BallLost(count)
                    THEN [kf |-> kf_, tracking |-> FALSE, count |-> count,
                          track |-> NoTrack, predicts |-> 0]
                    ELSE [kf |-> KFpredict(kf_), tracking |-> TRUE, count |-> count,
                          track |-> track_, predicts |-> 1]
               ELSE [kf |-> kf_, tracking |-> FALSE,
                     count |-> frames_since_detection_, track |-> track_,
                     predicts |-> 0]
        \* lines 264-267
        predicted == KFpredict(mid.kf)
    IN /\ is_tracking_' = mid.tracking
       /\ frames_since_detection_' = mid.count
       /\ kf_' = IF mid.tracking THEN predicted ELSE mid.kf
       /\ track_' = IF mid.tracking
                    THEN [id |-> 0, pos |-> [x |-> predicted.x, y |-> predicted.y]]
                    ELSE mid.track
       /\ ball_call' = [detections |-> detections, best_ball |-> best_ball,
                        predicts |-> IF mid.tracking THEN mid.predicts + 1
                                     ELSE mid.predicts]
       /\ ball_seen' = (ball_seen \/ found)
       /\ ball_misses' = IF found THEN 0 ELSE Min(ball_misses + 1, MissCap)

BallUpdateAction ==
    \E detections \in SeqUpTo(BallDetections, MaxBallDets) :
        /\ BallUpdate(detections)
        /\ last_op' = "ball_update"
        /\ UNCHANGED <<playerVars, metricsVars, jobVars, liveVars, sideVars>>

\* BallTracker::get_track
get_track == track_

----------------------------------------------------------------------------
(* MetricsCalculator (analytics/metrics.cpp) *)

\* std::to_string(double) prints six decimals: the value num / den as the
\* number of millionths it prints, rounded as printf rounds
to_string(num, den) == (2 * num * 1000000 + den) \div (2 * den)

\* mutant of norm: the city-block length
normCityBlock(dx, dy) == Abs(dx) + Abs(dy)

\* cv::norm of the point (dx, dy): the positions of the model lie on a grid
\* on which every distance is a whole number
norm(dx, dy) ==
    LET d2 == dx * dx + dy * dy
    IN CHOOSE r \in 0..d2 : r * r <= d2 /\ d2 < (r + 1) * (r + 1)

\* mutant of AddDistance: the total is overwritten by the last distance
SetDistance(total, distance_meters) == distance_meters

\* `player_total_distances_[id] += distance_meters` (line 51)
AddDistance(total, distance_meters) == total + distance_meters

\* operator[] of a std::map: the value at k, value-initialised if absent
At(m, k) == IF k \in DOMAIN m THEN m[k] ELSE 0

\* `delta_time > 0` (line 46) for delta_time = delta_frames / fps in double
\* arithmetic, fps >= 0: a positive number of frames over fps = 0 is +infinity,
\* which is > 0; 0 / 0 is NaN, which is not
DeltaTimePositive(delta_frames, fps) == delta_frames > 0 /\ fps >= 0

\* `distance_meters / delta_time` (line 47), taken when delta_time > 0: a
\* distance over +infinity is 0
SpeedOver(distance_meters, delta_frames, fps) ==
    IF fps = 0 THEN to_string(0, 1)
    ELSE to_string(distance_meters * fps, delta_frames)

\* the body of the loop of lines 14-92 for one track <<id, position>>; st
\* holds the maps and the rows
ProcessPlayer(st, frame_count, fps, track, team_assignments) ==
    LET id == track[1]
        pos == track[2]
        seen == id \in DOMAIN st.last_player_positions
                  /\ id \in DOMAIN st.last_player_frame_counts
        last == st.last_player_positions[id]
        distance_meters == IF seen THEN norm(pos.x - last.x, pos.y - last.y) ELSE 0
        delta_frames == frame_count - st.last_player_frame_counts[id]
        speed_mps == IF seen /\ DeltaTimePositive(delta_frames, fps)
                     THEN SpeedOver(distance_meters, delta_frames, fps)
                     ELSE to_string(0, 1)
        totals == IF seen
                  THEN MapPut(st.player_total_distances, id,
                              AddDistance(At(st.player_total_distances, id),
                                          distance_meters))
                  ELSE MapPut(st.player_total_distances, id, 0)
        total_distance_meters == IF seen THEN totals[id] ELSE 0
        row == [frame |-> frame_count,
                player_id |-> id,
                x |-> to_string(pos.x, 1),
                y |-> to_string(pos.y, 1),
                team |-> IF id \in DOMAIN team_assignments
                         THEN team_assignments[id] ELSE "Unknown",
                speed_mps |-> speed_mps,
                distance_meters |-> to_string(distance_meters, 1),
                total_distance_meters |-> to_string(total_distance_meters, 1)]
    IN [player_metrics |-> Append(st.player_metrics, row),
        last_player_positions |-> MapPut(st.last_player_positions, id, pos),
        player_total_distances |-> totals,
        last_player_frame_counts |-> MapPut(st.last_player_frame_counts, id,
                                            frame_count),
        player_frame_counts |-> MapPut(st.player_frame_counts, id,
                                       At(st.player_frame_counts, id) + 1)]

\* the loop of lines 14-92 from track i on
RECURSIVE ProcessPlayers(_, _, _, _, _, _)
ProcessPlayers(st, frame_count, fps, player_tracks, team_assignments, i) ==
    IF i > Len(player_tracks) THEN st
    ELSE ProcessPlayers(
           ProcessPlayer(st, frame_count, fps, player_tracks[i], team_assignments),
           frame_count, fps, player_tracks, team_assignments, i + 1)

\* MetricsCalculator::process_frame
ProcessFrame(frame_count, fps, player_tracks, ball_track, team_assignments) ==
    LET st == ProcessPlayers(
                [player_metrics |-> player_metrics_,
                 last_player_positions |-> last_player_positions_,
                 player_total_distances |-> player_total_distances_,
                 last_player_frame_counts |-> last_player_frame_counts_,
                 player_frame_counts |-> player_frame_counts_],
                frame_count, fps, player_tracks, team_assignments, 1)
    IN /\ video_fps_' = IF fps > 0 THEN fps ELSE video_fps_
       /\ metrics_call' = [fps |-> fps, tracks |-> Len(player_tracks)]
       /\ player_metrics_' = st.player_metrics
       /\ last_player_positions_' = st.last_player_positions
       /\ player_total_distances_' = st.player_total_distances
       /\ last_player_frame_counts_' = st.last_player_frame_counts
       /\ player_frame_counts_' = st.player_frame_counts
       /\ ball_metrics_' = IF ball_track.id # -1
                           THEN Append(ball_metrics_,
                                       [frame |-> frame_count,
                                        x |-> to_string(ball_track.pos.x, 1),
                                        y |-> to_string(ball_track.pos.y, 1)])
                           ELSE ball_metrics_

\* real-world positions: the corners (0,0), (3,4) of a 3 x 4 rectangle
Positions == {[x |-> 0, y |-> 0], [x |-> 3, y |-> 4]}

\* the tracks of one frame: players 0 and 1, each present or not, in id order
PlayerTrackLists ==
    {<<>>}
    \cup {<<<<id, p>>>> : id \in {0, 1}, p \in Positions}
    \cup {<<<<0, p>>, <<1, q>>>> : p \in Positions, q \in Positions}

\* frame rates passed to process_frame: 30, and 0 (none reported)
FpsValues == {30, 0}

ProcessFrameAction ==
    \E frame_count \in {1, 31}, fps \in FpsValues,
       player_tracks \in PlayerTrackLists,
       ball_track \in {NoTrack, [id |-> 0, pos |-> [x |-> 3, y |-> 4]]},
       team_assignments \in {[id \in {0} |-> "Team A"]} :
        /\ ProcessFrame(frame_count, fps, player_tracks, ball_track, team_assignments)
        /\ Len(player_metrics_') <= MaxRows
        /\ Len(ball_metrics_') <= MaxBallRows
        /\ last_op' = "process_frame"
        /\ UNCHANGED <<playerVars, ballVars, jobVars, liveVars, sideVars>>

----------------------------------------------------------------------------
(* Calibration (utils/calibration.cpp) *)

\* Calibration::transform of one (id, point): the point through the
\* homography ("identity", or "double": twice the pixel coordinates) if the
\* matrix is not empty, else the value-initialised cv::Point2f
transformPoint(h, point) ==
    IF h = "empty" THEN ZeroPoint
    ELSE IF h = "double" THEN [x |-> 2 * point.x, y |-> 2 * point.y]
    ELSE point

\* Calibration::transform(tracks) and Calibration::transform(track)
transform(h, tracks) ==
    [i \in DOMAIN tracks |-> <<tracks[i][1], transformPoint(h, tracks[i][2])>>]

transformBall(h, track) == [id |-> track.id, pos |-> transformPoint(h, track.pos)]

----------------------------------------------------------------------------
(* MetricsCalculator::save_to_csv (analytics/metrics.cpp) *)

\* `static_cast<int>(seconds / 60.0)` for seconds = frames_seen / video_fps_
minutes_played(frames_seen, fps) ==
    IF fps > 0 /\ frames_seen > 0 THEN frames_seen \div (fps * 60) ELSE 0

\* the row save_to_csv writes for the recorded row m, by column name
CsvPlayerRow(m) ==
    [frame |-> m.frame,
     player_id |-> m.player_id,
     x |-> m.x,
     y |-> m.y,
     team |-> m.team,
     minutes_played |-> minutes_played(At(player_frame_counts_, m.player_id),
                                       video_fps_),
     distance_meters |-> m.distance_meters,
     total_distance_meters |-> m.total_distance_meters,
     distance_covered_km |-> to_string(At(player_total_distances_, m.player_id),
                                       1000)]

\* MetricsCalculator::save_to_csv: each file is written only if it has rows
save_to_csv ==
    /\ player_csv' = IF player_metrics_ # <<>>
                     THEN [i \in DOMAIN player_metrics_ |->
                             CsvPlayerRow(player_metrics_[i])]
                     ELSE player_csv
    /\ ball_csv' = IF ball_metrics_ # <<>> THEN ball_metrics_ ELSE ball_csv

----------------------------------------------------------------------------
(* AnalysisEngineServiceImpl::AnalyzeVideo (service.cpp) *)

\* class ids of the detector: person and sports ball
PlayerClass == 0
BallClass == 32
\* a progress update is written every 30 frames
ProgressEvery == 30

\* a progress value: the float num / den (den = 0: infinite for num > 0)
Progress(num, den) == [num |-> num, den |-> den]

NoResult == [total_frames |-> 0, players_tracked |-> 0]

\* a grpc::Status: code and error message
Status(code, message) == [code |-> code, message |-> message]

\* what the detector returns for frame idx of a video: in "play" a player is
\* seen at BoxA in frame 1 and, one pixel to the left, at BoxE in frame 2,
\* another stands at BoxD from frame 10 on, and the ball is seen, with less
\* confidence, in frames 1-3
Scene(kind, idx) ==
    IF kind = "empty" THEN <<>>
    ELSE (IF idx = 1
          THEN <<[class_id |-> PlayerClass, box |-> BoxA, confidence |-> ConfSteps]>>
          ELSE IF idx = 2
          THEN <<[class_id |-> PlayerClass, box |-> BoxE, confidence |-> ConfSteps]>>
          ELSE IF idx >= 10
          THEN <<[class_id |-> PlayerClass, box |-> BoxD, confidence |-> ConfSteps]>>
          ELSE <<>>)
         \o (IF idx <= 3
             THEN <<[class_id |-> BallClass, box |-> Box(4, 4, 4, 4),
                     confidence |-> 1]>>
             ELSE <<>>)

\* a video source: whether it opens, the frames it yields, the frame count
\* and rate it reports (CAP_PROP_FRAME_COUNT, CAP_PROP_FPS)
Video(opens, frames, count, fps, kind) ==
    [opens |-> opens, frames |-> frames, count |-> count, fps |-> fps, kind |-> kind]

Videos ==
    {Video(FALSE, 0, 0, 0, "empty"),
     Video(TRUE, 0, 0, 0, "empty"),
     Video(TRUE, 2, 2, 30, "play"),
     Video(TRUE, MaxFrames, MaxFrames, 30, "play"),
     Video(TRUE, MaxFrames, 20, 30, "empty"),
     Video(TRUE, MaxFrames, 0, 30, "empty")}

\* the requests: the video, whether the model file yields an engine, the
\* confidence floor (in steps of 1 / ConfSteps), whether a calibration loads
Requests ==
    [video : Videos, model_ok : BOOLEAN, confidence_threshold : {1, ConfSteps},
     calibration : {"empty", "identity"}]

\* the detections of one class at or above the confidence floor (lines 94-104)
RECURSIVE SplitDetections(_, _, _, _)
SplitDetections(all_detections, class_id, threshold, i) ==
    IF i > Len(all_detections) THEN <<>>
    ELSE LET det == all_detections[i]
         IN (IF det.class_id = class_id /\ det.confidence >= threshold
             THEN <<Detection(det.box, det.confidence)>> ELSE <<>>)
            \o SplitDetections(all_detections, class_id, threshold, i + 1)

\* writer->Write(response)
Write(r) == responses' = Append(responses, r)

\* the handler of lines 155-161: FAILED with the exception's text, INTERNAL
CatchException(what_text) ==
    /\ response' = [response EXCEPT !.status = "FAILED",
                                    !.message = <<"Internal error: ", what_text>>]
    /\ Write(response')
    /\ rpc_status' = Status("INTERNAL", what_text)
    /\ pc' = "returned"

\* the job's trackers and metrics are left as they are
TrackersUnchanged == UNCHANGED <<playerVars, ballVars, metricsVars>>

\* lines 35-48: the request arrives, PENDING is written
AnalyzeVideoStart ==
    /\ pc = "idle"
    /\ chunks_sent = 0 /\ ~client_done
    /\ \E r \in Requests : request' = r
    /\ response' = [status |-> "PENDING", progress |-> Progress(0, 1),
                    message |-> <<"Initializing analysis engine...">>,
                    result |-> NoResult]
    /\ Write(response')
    /\ pc' = "init"
    /\ last_op' = "AnalyzeVideoStart"
    /\ UNCHANGED <<liveVars, sideVars>>
    /\ TrackersUnchanged
    /\ UNCHANGED <<rpc_status, homography_matrix_, cap, video_fps, total_frames,
                   current_frame_idx, cancelled, frames_after_cancel, assign_calls,
                   save_calls, player_csv, ball_csv>>

\* lines 50-67: the components are constructed; YoloV8::YoloV8 throws
\* std::runtime_error if it gets no engine
AnalyzeVideoInit ==
    /\ pc = "init"
    /\ homography_matrix_' = request.calibration
    /\ IF request.model_ok
       THEN pc' = "open" /\ UNCHANGED <<response, responses, rpc_status>>
       ELSE CatchException("Failed to initialize TensorRT engine.")
    /\ last_op' = "AnalyzeVideoInit"
    /\ UNCHANGED <<liveVars, sideVars>>
    /\ TrackersUnchanged
    /\ UNCHANGED <<request, cap, video_fps, total_frames, current_frame_idx,
                   cancelled, frames_after_cancel, assign_calls, save_calls,
                   player_csv, ball_csv>>

\* mutant of OpenFailureCode: the failed open is reported like an exception
OpenFailureCodeInternal == "INTERNAL"

\* grpc::StatusCode::NOT_FOUND (line 76)
OpenFailureCode == "NOT_FOUND"

\* lines 69-85: the video is opened
AnalyzeVideoOpen ==
    /\ pc = "open"
    /\ IF ~request.video.opens
       THEN /\ response' = [response EXCEPT
                              !.status = "FAILED",
                              !.message = <<"Could not open video file: ">>]
            /\ Write(response')
            /\ rpc_status' = Status(OpenFailureCode, "Video file not found")
            /\ pc' = "returned"
            /\ UNCHANGED <<cap, video_fps, total_frames, current_frame_idx>>
       ELSE /\ cap' = [opened |-> TRUE, pos |-> 0]
            /\ video_fps' = IF request.video.fps = 0 THEN 30 ELSE request.video.fps
            /\ total_frames' = request.video.count
            /\ current_frame_idx' = 0
            /\ pc' = "loop"
            /\ UNCHANGED <<response, responses, rpc_status>>
    /\ last_op' = "AnalyzeVideoOpen"
    /\ UNCHANGED <<liveVars, sideVars>>
    /\ TrackersUnchanged
    /\ UNCHANGED <<request, homography_matrix_, cancelled, frames_after_cancel,
                   assign_calls, save_calls, player_csv, ball_csv>>

\* lines 120-129: the progress update of every 30th frame
WriteProgress(idx) ==
    IF idx % ProgressEvery = 0
    THEN /\ response' = [response EXCEPT
                           !.status = "PROCESSING",
                           !.progress = Progress(idx, total_frames),
                           !.message = <<"Processing frame ", idx, total_frames>>]
         /\ Write(response')
    ELSE UNCHANGED <<response, responses>>

\* mutant of AfterFrame: the poll is made only where progress is written
AfterFrameEveryThirtieth(idx) == IF idx % ProgressEvery = 0 THEN "poll" ELSE "loop"

\* the body of the loop ends in the poll of line 131, on every frame
AfterFrame(idx) == "poll"

\* lines 88-129: cap.read; at end of stream the loop is left, else the frame
\* is detected, tracked and measured; the detector may throw
AnalyzeVideoFrame ==
    /\ pc = "loop"
    /\ last_op' = "AnalyzeVideoFrame"
    /\ UNCHANGED <<liveVars, sideVars>>
    /\ UNCHANGED <<request, homography_matrix_, video_fps, total_frames, cancelled,
                   assign_calls, save_calls, player_csv, ball_csv>>
    /\ IF cap.pos >= request.video.frames
       THEN /\ pc' = "finalize"
            /\ TrackersUnchanged
            /\ UNCHANGED <<cap, current_frame_idx, frames_after_cancel, response,
                           responses, rpc_status>>
       ELSE /\ cap' = [cap EXCEPT !.pos = cap.pos + 1]
            /\ current_frame_idx' = current_frame_idx + 1
            /\ frames_after_cancel' = IF cancelled THEN frames_after_cancel + 1
                                      ELSE frames_after_cancel
            /\ \E detect_throws \in BOOLEAN :
                 IF detect_throws
                 THEN /\ CatchException("detect")
                      /\ TrackersUnchanged
                 ELSE LET all_detections == Scene(request.video.kind,
                                                  current_frame_idx + 1)
                          player_detections ==
                              SplitDetections(all_detections, PlayerClass,
                                              request.confidence_threshold, 1)
                          ball_detections ==
                              SplitDetections(all_detections, BallClass,
                                              request.confidence_threshold, 1)
                      IN /\ Update(player_detections, UniformFrame(1))
                         /\ UNCHANGED <<team_assignments_, km_labels>>
                         /\ BallUpdate(ball_detections)
                         /\ ProcessFrame(current_frame_idx + 1, video_fps,
                                         transform(homography_matrix_, get_tracks'),
                                         transformBall(homography_matrix_, get_track'),
                                         team_assignments_)
                         /\ WriteProgress(current_frame_idx + 1)
                         /\ pc' = AfterFrame(current_frame_idx + 1)
                         /\ UNCHANGED rpc_status

\* mutant of IsCancelled: the flag is never seen
IsCancelledNever == FALSE

\* context->IsCancelled() (line 131)
IsCancelled == cancelled

\* mutant of AfterCancel: the loop is left by `break`, not by `return`
AfterCancelBreak == "finalize"

\* `return Status::CANCELLED` (line 132) leaves the function
AfterCancel == "returned"

\* lines 131-133: the cancellation poll that ends every iteration
AnalyzeVideoPoll ==
    /\ pc = "poll"
    /\ IF IsCancelled
       THEN rpc_status' = Status("CANCELLED", "") /\ pc' = AfterCancel
       ELSE pc' = "loop" /\ UNCHANGED rpc_status
    /\ last_op' = "AnalyzeVideoPoll"
    /\ UNCHANGED <<liveVars, sideVars>>
    /\ TrackersUnchanged
    /\ UNCHANGED <<request, response, responses, homography_matrix_, cap, video_fps,
                   total_frames, current_frame_idx, cancelled, frames_after_cancel,
                   assign_calls, save_calls, player_csv, ball_csv>>

\* mutant of CompletedStatus: the status of the last update is left in place
CompletedStatusNotSet == "PROCESSING"

\* response.set_status("COMPLETED") (line 141)
CompletedStatus == "COMPLETED"

\* lines 136-163: teams, export, COMPLETED with the summary, OK
AnalyzeVideoFinalize ==
    /\ pc = "finalize"
    /\ assign_teams
    /\ assign_calls' = assign_calls + 1
    /\ save_to_csv
    /\ save_calls' = save_calls + 1
    /\ response' = [response EXCEPT
                      !.status = CompletedStatus,
                      !.progress = Progress(1, 1),
                      !.message = <<"Analysis finished successfully">>,
                      !.result = [total_frames |-> total_frames,
                                  players_tracked |-> Len(get_tracks)]]
    /\ Write(response')
    /\ rpc_status' = Status("OK", "")
    /\ pc' = "returned"
    /\ last_op' = "AnalyzeVideoFinalize"
    /\ UNCHANGED <<liveVars, sideVars>>
    /\ UNCHANGED <<tracks_, next_track_id_, last_update, run, ballVars, metricsVars>>
    /\ UNCHANGED <<request, homography_matrix_, cap, video_fps, total_frames,
                   current_frame_idx, cancelled, frames_after_cancel>>

\* the caller cancels the call while the job runs
Cancel ==
    /\ pc \notin {"idle", "returned"}
    /\ ~cancelled
    /\ cancelled' = TRUE
    /\ last_op' = "Cancel"
    /\ UNCHANGED <<liveVars, sideVars>>
    /\ TrackersUnchanged
    /\ UNCHANGED <<pc, request, response, responses, rpc_status, homography_matrix_,
                   cap, video_fps, total_frames, current_frame_idx,
                   frames_after_cancel, assign_calls, save_calls, player_csv, ball_csv>>

----------------------------------------------------------------------------
(* AnalysisEngineServiceImpl::StreamAnalysis (service.cpp) *)

\* a live update is written every 5th frame
UpdateEvery == 5

\* a VideoChunk: its payload (the chunk's number in the caller's stream) and
\* the is_last_chunk flag
Chunk(data, is_last_chunk) == [data |-> data, is_last_chunk |-> is_last_chunk]

\* the variables of AnalyzeVideo that StreamAnalysis does not have
BatchOnlyUnchanged ==
    UNCHANGED <<request, response, video_fps, total_frames, cancelled,
                frames_after_cancel, assign_calls, save_calls, player_csv, ball_csv,
                sideVars>>

\* the positions of AnalyzeVideo
BatchPositions == {"init", "open", "loop", "poll", "finalize"}

\* the caller sends one more chunk
ClientSend ==
    /\ pc \notin BatchPositions \cup {"returned"}
    /\ ~client_done
    /\ chunks_sent < MaxChunks
    /\ \E is_last_chunk \in BOOLEAN :
         stream_in' = Append(stream_in, Chunk(chunks_sent, is_last_chunk))
    /\ chunks_sent' = chunks_sent + 1
    /\ last_op' = "ClientSend"
    /\ TrackersUnchanged
    /\ BatchOnlyUnchanged
    /\ UNCHANGED <<pc, responses, rpc_status, homography_matrix_, cap,
                   current_frame_idx, client_done, first_chunk, fifo, written,
                   feeder_pc, feeder_chunk, streaming_done, error_occurred,
                   exit_path, joined, unlinked, what>>

\* the caller closes its side of the stream: Read returns false once the
\* chunks sent have been read
ClientClose ==
    /\ pc \notin BatchPositions \cup {"returned"}
    /\ ~client_done
    /\ client_done' = TRUE
    /\ last_op' = "ClientClose"
    /\ TrackersUnchanged
    /\ BatchOnlyUnchanged
    /\ UNCHANGED <<pc, responses, rpc_status, homography_matrix_, cap,
                   current_frame_idx, stream_in, chunks_sent, first_chunk, fifo,
                   written, feeder_pc, feeder_chunk, streaming_done, error_occurred,
                   exit_path, joined, unlinked, what>>

\* lines 166-205: the first chunk is read, the pipe is made (mkfifo may
\* fail, its result is not looked at) and the feeder thread is started
StreamAnalysisStart ==
    /\ pc = "idle"
    /\ IF stream_in = <<>>
       THEN /\ client_done
            /\ rpc_status' = Status("INVALID_ARGUMENT", "No data received")
            /\ pc' = "returned"
            /\ UNCHANGED <<first_chunk, stream_in, fifo, feeder_pc>>
       ELSE /\ first_chunk' = Head(stream_in)
            /\ stream_in' = Tail(stream_in)
            /\ \E made \in BOOLEAN : fifo' = [fifo EXCEPT !.exists = made]
            /\ feeder_pc' = "open"
            /\ pc' = "live_init"
            /\ UNCHANGED rpc_status
    /\ last_op' = "StreamAnalysisStart"
    /\ TrackersUnchanged
    /\ BatchOnlyUnchanged
    /\ UNCHANGED <<responses, homography_matrix_, cap, current_frame_idx,
                   chunks_sent, client_done, written, feeder_chunk, streaming_done,
                   error_occurred, exit_path, joined, unlinked, what>>

\* what a feeder step leaves alone
FeederOnly ==
    /\ TrackersUnchanged
    /\ BatchOnlyUnchanged
    /\ UNCHANGED <<pc, responses, rpc_status, homography_matrix_, cap,
                   current_frame_idx, chunks_sent, client_done, first_chunk,
                   exit_path, joined, unlinked, what>>

\* write(fd, ..) returns: there is room in the pipe, or no reader is left
\* and the write fails at once
CanWrite(f) == f.reader_open => Len(f.bytes) < PipeCap

\* write(fd, ..): the payload goes into the pipe; with no reader left the
\* write fails and its result is not looked at
FifoWrite(f, data) ==
    IF f.reader_open THEN [f EXCEPT !.bytes = Append(f.bytes, data)] ELSE f

\* close(fd) of the writing end
FifoClose(f) == [f EXCEPT !.writer_open = FALSE, !.writer_closed = TRUE]

\* the payloads that went into the pipe, in order
Written(f, data) == IF f.reader_open THEN Append(written, data) ELSE written

\* lines 187-192: open(fifo_path, O_WRONLY) is called; it fails at once if
\* there is no pipe, or for want of a file descriptor or of the permission
\* to write, and otherwise waits for a reader
FeederOpen ==
    /\ feeder_pc = "open"
    /\ \E fd_ok \in BOOLEAN :
         IF ~fifo.exists \/ ~fd_ok
         THEN /\ error_occurred' = TRUE
              /\ feeder_pc' = "done"
         ELSE /\ feeder_pc' = "opening"
              /\ UNCHANGED error_occurred
    /\ last_op' = "FeederOpen"
    /\ FeederOnly
    /\ UNCHANGED <<fifo, stream_in, written, feeder_chunk, streaming_done>>

\* line 187: open(fifo_path, O_WRONLY) returns once a reader has the pipe
\* open
FeederOpened ==
    /\ feeder_pc = "opening"
    /\ fifo.reader_open
    /\ fifo' = [fifo EXCEPT !.writer_open = TRUE]
    /\ feeder_pc' = "write_first"
    /\ last_op' = "FeederOpened"
    /\ FeederOnly
    /\ UNCHANGED <<stream_in, written, feeder_chunk, streaming_done, error_occurred>>

\* line 195: the first chunk is written
FeederWriteFirst ==
    /\ feeder_pc = "write_first"
    /\ CanWrite(fifo)
    /\ fifo' = FifoWrite(fifo, first_chunk.data)
    /\ written' = Written(fifo, first_chunk.data)
    /\ feeder_pc' = "read"
    /\ last_op' = "FeederWriteFirst"
    /\ FeederOnly
    /\ UNCHANGED <<stream_in, feeder_chunk, streaming_done, error_occurred>>

\* line 198: stream->Read(&chunk) yields the next chunk, or false when the
\* caller has closed the stream
FeederRead ==
    /\ feeder_pc = "read"
    /\ IF stream_in # <<>>
       THEN /\ feeder_chunk' = Head(stream_in)
            /\ stream_in' = Tail(stream_in)
            /\ feeder_pc' = "write"
            /\ UNCHANGED <<fifo, streaming_done>>
       ELSE /\ client_done
            /\ fifo' = FifoClose(fifo)
            /\ streaming_done' = TRUE
            /\ feeder_pc' = "done"
            /\ UNCHANGED <<stream_in, feeder_chunk>>
    /\ last_op' = "FeederRead"
    /\ FeederOnly
    /\ UNCHANGED <<written, error_occurred>>

\* lines 199-201: the chunk is written; after the last chunk the loop ends
FeederWrite ==
    /\ feeder_pc = "write"
    /\ CanWrite(fifo)
    /\ written' = Written(fifo, feeder_chunk.data)
    /\ IF feeder_chunk.is_last_chunk
       THEN /\ fifo' = FifoClose(FifoWrite(fifo, feeder_chunk.data))
            /\ streaming_done' = TRUE
            /\ feeder_pc' = "done"
       ELSE /\ fifo' = FifoWrite(fifo, feeder_chunk.data)
            /\ feeder_pc' = "read"
            /\ UNCHANGED streaming_done
    /\ last_op' = "FeederWrite"
    /\ FeederOnly
    /\ UNCHANGED <<stream_in, feeder_chunk, error_occurred>>

\* what a step of the consumer leaves alone
ConsumerOnly ==
    /\ UNCHANGED <<request, response, video_fps, total_frames, cancelled,
                   assign_calls, save_calls, player_csv, ball_csv, sideVars>>
    /\ UNCHANGED <<stream_in, chunks_sent, client_done, first_chunk, written,
                   feeder_pc, feeder_chunk, error_occurred, joined>>

\* mutant of HandlerEntry: the handler releases the pipe without joining
HandlerEntryUnlink == "unlink"

\* the handler begins with `if (feeder_thread.joinable()) feeder_thread.join()`
\* (lines 297-298)
HandlerEntry == "join"

\* an exception leaves the try block: the locals, cap among them, are
\* destroyed and the handler of lines 296-301 is entered
Throw(text) ==
    /\ fifo' = [fifo EXCEPT !.reader_open = FALSE, !.bytes = <<>>]
    /\ cap' = [cap EXCEPT !.opened = FALSE]
    /\ exit_path' = "exception"
    /\ what' = text
    /\ pc' = HandlerEntry

\* lines 207-218: the components are constructed
StreamAnalysisInit ==
    /\ pc = "live_init"
    /\ \E calibration \in {"empty", "identity"} : homography_matrix_' = calibration
    /\ \E model_ok \in BOOLEAN :
         IF model_ok
         THEN pc' = "live_open" /\ UNCHANGED <<fifo, cap, exit_path, what>>
         ELSE Throw("Failed to initialize TensorRT engine.")
    /\ last_op' = "StreamAnalysisInit"
    /\ TrackersUnchanged
    /\ ConsumerOnly
    /\ UNCHANGED <<responses, rpc_status, current_frame_idx, streaming_done, unlinked>>
    /\ UNCHANGED frames_after_cancel

\* line 220: cv::VideoCapture cap(fifo_path) opens the pipe for reading; it
\* fails at once if there is no pipe
StreamAnalysisOpen ==
    /\ pc = "live_open"
    /\ IF fifo.exists
       THEN /\ fifo' = [fifo EXCEPT !.reader_open = TRUE]
            /\ pc' = "live_opening"
            /\ UNCHANGED <<streaming_done, exit_path, what>>
       ELSE /\ streaming_done' = TRUE
            /\ exit_path' = "open_failed"
            /\ what' = "Failed to open video stream via FIFO"
            /\ pc' = "join"
            /\ UNCHANGED fifo
    /\ last_op' = "StreamAnalysisOpen"
    /\ TrackersUnchanged
    /\ ConsumerOnly
    /\ UNCHANGED <<responses, rpc_status, homography_matrix_, cap, current_frame_idx,
                   unlinked>>
    /\ UNCHANGED frames_after_cancel

\* lines 220-233: the capture reads the head of the stream, which the feeder
\* must have written or closed, and is opened or not (lines 221-227)
StreamAnalysisOpened ==
    /\ pc = "live_opening"
    /\ fifo.bytes # <<>> \/ fifo.writer_closed
    /\ \E opened \in BOOLEAN :
         /\ opened => fifo.bytes # <<>>
         /\ IF opened
            THEN /\ cap' = [opened |-> TRUE, pos |-> 0]
                 /\ current_frame_idx' = 0
                 /\ pc' = "live_loop"
                 /\ UNCHANGED <<fifo, streaming_done, exit_path, what>>
            ELSE /\ fifo' = [fifo EXCEPT !.reader_open = FALSE, !.bytes = <<>>]
                 /\ streaming_done' = TRUE
                 /\ exit_path' = "open_failed"
                 /\ what' = "Failed to open video stream via FIFO"
                 /\ pc' = "join"
                 /\ UNCHANGED <<cap, current_frame_idx>>
    /\ last_op' = "StreamAnalysisOpened"
    /\ TrackersUnchanged
    /\ ConsumerOnly
    /\ UNCHANGED <<responses, rpc_status, homography_matrix_, unlinked>>
    /\ UNCHANGED frames_after_cancel

\* lines 257-282: the update of every 5th frame
WriteUpdate(idx) ==
    IF idx % UpdateEvery = 0
    THEN Write([status |-> "PROCESSING", progress |-> Progress(0, 1),
                message |-> <<"Processing frame ", idx>>, result |-> NoResult])
    ELSE UNCHANGED responses

\* lines 235-283: cap.read yields the next frame of the pipe, or false once
\* the feeder has closed the pipe and nothing is left in it; the frame is
\* detected and tracked; the detector may throw
StreamAnalysisFrame ==
    /\ pc = "live_loop"
    /\ last_op' = "StreamAnalysisFrame"
    /\ ConsumerOnly
    /\ UNCHANGED <<rpc_status, homography_matrix_, streaming_done, unlinked,
                   metricsVars>>
    /\ IF fifo.bytes = <<>>
       THEN /\ fifo.writer_closed
            /\ exit_path' = "normal"
            /\ pc' = "join"
            /\ UNCHANGED <<playerVars, ballVars, fifo, cap, current_frame_idx,
                           responses, what, frames_after_cancel>>
       ELSE /\ current_frame_idx' = current_frame_idx + 1
            /\ frames_after_cancel' = IF cancelled THEN frames_after_cancel + 1
                                      ELSE frames_after_cancel
            /\ \/ /\ Throw("detect")
                  /\ UNCHANGED <<playerVars, ballVars, responses>>
               \/ LET all_detections == Scene("play", current_frame_idx + 1)
                  IN /\ fifo' = [fifo EXCEPT !.bytes = Tail(fifo.bytes)]
                     /\ cap' = [cap EXCEPT !.pos = cap.pos + 1]
                     /\ Update(SplitDetections(all_detections, PlayerClass, 0, 1),
                               UniformFrame(1))
                     /\ UNCHANGED <<team_assignments_, km_labels>>
                     /\ BallUpdate(SplitDetections(all_detections, BallClass,
                                                   0, 1))
                     /\ WriteUpdate(current_frame_idx + 1)
                     /\ pc' = "live_loop"
                     /\ UNCHANGED <<exit_path, what>>

\* feeder_thread.join() (lines 223, 285, 298) returns when the feeder has
\* returned
StreamAnalysisJoin ==
    /\ pc = "join"
    /\ feeder_pc = "done"
    /\ joined' = TRUE
    /\ pc' = "unlink"
    /\ last_op' = "StreamAnalysisJoin"
    /\ TrackersUnchanged
    /\ BatchOnlyUnchanged
    /\ UNCHANGED <<responses, rpc_status, homography_matrix_, cap, current_frame_idx,
                   stream_in, chunks_sent, client_done, first_chunk, fifo, written,
                   feeder_pc, feeder_chunk, streaming_done, error_occurred,
                   exit_path, unlinked, what>>

\* unlink(fifo_path) (lines 224, 286, 299)
StreamAnalysisUnlink ==
    /\ pc = "unlink"
    /\ fifo' = [fifo EXCEPT !.exists = FALSE]
    /\ unlinked' = TRUE
    /\ pc' = "return"
    /\ last_op' = "StreamAnalysisUnlink"
    /\ TrackersUnchanged
    /\ ConsumerOnly
    /\ UNCHANGED <<responses, rpc_status, homography_matrix_, cap, current_frame_idx,
                   streaming_done, exit_path, what>>
    /\ UNCHANGED frames_after_cancel

\* the return of lines 225, 300 or, after the COMPLETED update of lines
\* 288-294, of line 303
StreamAnalysisReturn ==
    /\ pc = "return"
    /\ IF exit_path = "normal"
       THEN /\ Write([status |-> "COMPLETED", progress |-> Progress(1, 1),
                      message |-> <<"Real-time analysis finished. ",
                                    current_frame_idx>>,
                      result |-> NoResult])
            /\ rpc_status' = Status("OK", "")
       ELSE /\ rpc_status' = Status("INTERNAL", what)
            /\ UNCHANGED responses
    /\ pc' = "returned"
    /\ last_op' = "StreamAnalysisReturn"
    /\ TrackersUnchanged
    /\ ConsumerOnly
    /\ UNCHANGED <<homography_matrix_, cap, current_frame_idx, fifo, streaming_done,
                   exit_path, unlinked, what>>
    /\ UNCHANGED frames_after_cancel

\* no live job has started, the caller has sent nothing
InitLive ==
    /\ stream_in = <<>>
    /\ chunks_sent = 0
    /\ client_done = FALSE
    /\ first_chunk = Chunk(0, FALSE)
    /\ fifo = [exists |-> FALSE, reader_open |-> FALSE, writer_open |-> FALSE,
               writer_closed |-> FALSE, bytes |-> <<>>]
    /\ written = <<>>
    /\ feeder_pc = "none"
    /\ feeder_chunk = Chunk(0, FALSE)
    /\ streaming_done = FALSE
    /\ error_occurred = FALSE
    /\ exit_path = "none"
    /\ joined = FALSE
    /\ unlinked = FALSE
    /\ what = ""


----------------------------------------------------------------------------
(* Concurrent jobs and the files they name (service.cpp, yolov8.cpp) *)

\* number of jobs the server runs at the same time
MaxJobs == 2

JobIds == 1..MaxJobs
\* the match ids and model paths a request may carry
MatchIds == {1, 2}
ModelPaths == {1, 2}

Path(kind, name) == [kind |-> kind, name |-> name]

\* every path a job can name
Paths ==
    {Path("engine", m) : m \in ModelPaths}
        \cup {Path(k, id) : k \in {"output", "stream_output", "fifo"}, id \in MatchIds}

\* onnx_model_path + ".engine"
engine_file_path_(j) == Path("engine", jobs[j].model_path)

\* "/tmp/analysis_" + match_id in AnalyzeVideo, "/tmp/analysis_stream_" +
\* match_id in StreamAnalysis
output_dir(j) ==
    Path(IF jobs[j].mode = "batch" THEN "output" ELSE "stream_output",
         jobs[j].match_id)

\* "/tmp/analysis_fifo_" + match_id
fifo_path(j) == Path("fifo", jobs[j].match_id)

\* job j opens or reads p: it uses p from now on
UseFile(f, j, p) == [f EXCEPT ![p].users = @ \cup {j}]

\* job j creates, writes or removes p
WriteFile(f, j, p, exists) ==
    [f EXCEPT ![p] = [exists |-> exists, users |-> @.users \cup {j}]]

\* the job function of j has returned: j uses nothing any more
ReleaseFiles(f, j) == [p \in DOMAIN f |-> [f[p] EXCEPT !.users = @ \ {j}]]

\* the record of a write of j to p: foreign if another running job uses p
RecordWrite(j, p) ==
    IF fs[p].users \ {j} # {} THEN foreign_writes \cup {p} ELSE foreign_writes

\* what a step of one of the concurrent jobs leaves alone
HostOnly ==
    UNCHANGED <<playerVars, ballVars, metricsVars, jobVars, liveVars, calibVars,
                iouVars>>

\* a request arrives: AnalyzeVideo (line 35) or StreamAnalysis (line 166)
JobStart ==
    \E j \in JobIds, mode \in {"batch", "live"}, match_id \in MatchIds,
       model_path \in ModelPaths :
        /\ jobs[j].pc = "idle"
        /\ jobs' = [jobs EXCEPT ![j] = [pc |-> IF mode = "live" THEN "mkfifo"
                                               ELSE "detector",
                                        mode |-> mode, match_id |-> match_id,
                                        model_path |-> model_path]]
        /\ last_op' = "JobStart"
        /\ UNCHANGED <<fs, foreign_writes>>
        /\ HostOnly

\* mkfifo(fifo_path) (line 179): makes the pipe, or fails because the name is
\* taken; the result is not looked at and the job goes on with that name
mkfifo ==
    \E j \in JobIds :
        /\ jobs[j].pc = "mkfifo"
        /\ IF fs[fifo_path(j)].exists
           THEN /\ fs' = UseFile(fs, j, fifo_path(j))
                /\ UNCHANGED foreign_writes
           ELSE /\ fs' = WriteFile(fs, j, fifo_path(j), TRUE)
                /\ foreign_writes' = RecordWrite(j, fifo_path(j))
        /\ jobs' = [jobs EXCEPT ![j].pc = "detector"]
        /\ last_op' = "mkfifo"
        /\ HostOnly

\* YoloV8::YoloV8 (lines 65-75): an engine file that is there is loaded, else
\* the engine is built
YoloV8 ==
    \E j \in JobIds :
        /\ jobs[j].pc = "detector"
        /\ IF fs[engine_file_path_(j)].exists
           THEN /\ fs' = UseFile(fs, j, engine_file_path_(j))
                /\ jobs' = [jobs EXCEPT ![j].pc = "output_dir"]
           ELSE /\ jobs' = [jobs EXCEPT ![j].pc = "buildEngine"]
                /\ UNCHANGED fs
        /\ last_op' = "YoloV8"
        /\ UNCHANGED foreign_writes
        /\ HostOnly

\* YoloV8::buildEngine: `std::ofstream engine_file(engine_file_path_, ..)`
\* creates or truncates the engine file
buildEngineOpen ==
    \E j \in JobIds :
        /\ jobs[j].pc = "buildEngine"
        /\ fs' = WriteFile(fs, j, engine_file_path_(j), TRUE)
        /\ foreign_writes' = RecordWrite(j, engine_file_path_(j))
        /\ jobs' = [jobs EXCEPT ![j].pc = "engine_file.write"]
        /\ last_op' = "buildEngineOpen"
        /\ HostOnly

\* YoloV8::buildEngine: engine_file.write(..) fills the engine file
buildEngineWrite ==
    \E j \in JobIds :
        /\ jobs[j].pc = "engine_file.write"
        /\ fs' = WriteFile(fs, j, engine_file_path_(j), TRUE)
        /\ foreign_writes' = RecordWrite(j, engine_file_path_(j))
        /\ jobs' = [jobs EXCEPT ![j].pc = "output_dir"]
        /\ last_op' = "buildEngineWrite"
        /\ HostOnly

\* fs::create_directories(output_dir) (lines 66, 218): makes the directory
\* unless it is there
create_directories ==
    \E j \in JobIds :
        /\ jobs[j].pc = "output_dir"
        /\ IF fs[output_dir(j)].exists
           THEN /\ fs' = UseFile(fs, j, output_dir(j))
                /\ UNCHANGED foreign_writes
           ELSE /\ fs' = WriteFile(fs, j, output_dir(j), TRUE)
                /\ foreign_writes' = RecordWrite(j, output_dir(j))
        /\ jobs' = [jobs EXCEPT ![j].pc = "frames"]
        /\ last_op' = "create_directories"
        /\ HostOnly

\* the frame loop of the job (lines 88-134, 235-283), on the job's own
\* trackers and metrics; a live job reads its frames from the pipe
JobFrames ==
    \E j \in JobIds :
        /\ jobs[j].pc = "frames"
        /\ IF jobs[j].mode = "live"
           THEN /\ fs' = UseFile(fs, j, fifo_path(j))
                /\ jobs' = [jobs EXCEPT ![j].pc = "unlink"]
           ELSE /\ jobs' = [jobs EXCEPT ![j].pc = "save_to_csv"]
                /\ UNCHANGED fs
        /\ last_op' = "JobFrames"
        /\ UNCHANGED foreign_writes
        /\ HostOnly

\* save_to_csv (line 138) writes the tables into output_dir; AnalyzeVideo
\* returns
JobExport ==
    \E j \in JobIds :
        /\ jobs[j].pc = "save_to_csv"
        /\ fs' = ReleaseFiles(WriteFile(fs, j, output_dir(j), TRUE), j)
        /\ foreign_writes' = RecordWrite(j, output_dir(j))
        /\ jobs' = [jobs EXCEPT ![j].pc = "returned"]
        /\ last_op' = "JobExport"
        /\ HostOnly

\* unlink(fifo_path) (line 286) removes the pipe; StreamAnalysis returns
unlink ==
    \E j \in JobIds :
        /\ jobs[j].pc = "unlink"
        /\ fs' = ReleaseFiles(WriteFile(fs, j, fifo_path(j), FALSE), j)
        /\ foreign_writes' = RecordWrite(j, fifo_path(j))
        /\ jobs' = [jobs EXCEPT ![j].pc = "returned"]
        /\ last_op' = "unlink"
        /\ HostOnly

\* the server after start: no job runs, none of the files is there
InitHost ==
    /\ jobs = [j \in JobIds |-> [pc |-> "idle", mode |-> "batch", match_id |-> 1,
                                 model_path |-> 1]]
    /\ fs = [p \in Paths |-> [exists |-> FALSE, users |-> {}]]
    /\ foreign_writes = {}

----------------------------------------------------------------------------
(* Calibration::Calibration and Calibration::transform as operations *)

\* the calibration files: none at the path, not YAML, YAML without (all of)
\* the nine numbers of homography_matrix, and two well-formed ones
CalibrationFiles == {"missing", "unparsable", "incomplete", "identity", "double"}

\* the files that hold a valid mapping
ValidCalibrationFiles == {"identity", "double"}

\* Calibration::Calibration (lines 4-17): YAML::LoadFile throws on a missing
\* or unparsable file before the matrix is allocated; on an incomplete file
\* as<double>() throws after `homography_matrix_ = cv::Mat(3, 3, CV_64F)`,
\* which leaves a matrix of uninitialised elements: any matrix
Calibration(path) ==
    IF path \in {"missing", "unparsable"} THEN {"empty"}
    ELSE IF path = "incomplete" THEN {"identity", "double"}
    ELSE {path}

\* one (id, point) pair of a transform call
TrackPoints == {<<id, p>> : id \in 0..1, p \in Positions}

\* what a Calibration operation leaves alone
CalibrationOnly ==
    UNCHANGED <<playerVars, ballVars, metricsVars, liveVars, hostVars, pc, request,
                response, responses, rpc_status, cap, video_fps, total_frames,
                current_frame_idx, cancelled, frames_after_cancel, assign_calls,
                save_calls, player_csv, ball_csv, iouVars>>

CalibrationAction ==
    \E path \in CalibrationFiles :
        /\ calibration_path' = path
        /\ homography_matrix_' \in Calibration(path)
        /\ last_op' = "Calibration"
        /\ UNCHANGED transform_call
        /\ CalibrationOnly

\* Calibration::transform(tracks) on up to two tracks
TransformAction ==
    \E tracks \in SeqUpTo(TrackPoints, 2) :
        /\ transform_call' = [input |-> tracks,
                              output |-> transform(homography_matrix_, tracks)]
        /\ last_op' = "transform"
        /\ UNCHANGED <<calibration_path, homography_matrix_>>
        /\ CalibrationOnly

\* a Calibration constructed from a path with no file, not yet used
InitCalibration ==
    /\ calibration_path = "missing"
    /\ transform_call = [input |-> <<>>, output |-> <<>>]

----------------------------------------------------------------------------

\* calculate_iou on its own (player_tracker.cpp).  A box of IouBoxes is on
\* the grid of the detections, or is the box of a track after the predict
\* step, whose x is a float that is no whole pixel: FractionalBox has x and
\* width in units of 2^-14 pixel (the spacing of the floats between 512 and
\* 1024) and y and height in pixels; it is the box of width 50 and height 1
\* at (1000.29998779296875, 0)
FractionalBox == Box(16388915, 0, 819200, 1)

IouBoxes ==
    {Box(x, 0, w, h) : x \in {0, 2, 4}, w \in {0, 2, 4}, h \in {0, 2}}
        \cup {FractionalBox}

\* calculate_iou(box1, box2) and calculate_iou(box2, box1)
CalculateIouAction ==
    /\ \E box1, box2 \in IouBoxes :
         iou_call' = [box1 |-> box1, box2 |-> box2,
                      iou |-> calculate_iou(box1, box2),
                      swapped |-> calculate_iou(box2, box1)]
    /\ last_op' = "calculate_iou"
    /\ UNCHANGED <<playerVars, ballVars, metricsVars, jobVars, liveVars, hostVars,
                   calibVars>>

InitIou ==
    iou_call = [box1 |-> Box(0, 0, 0, 0), box2 |-> Box(0, 0, 0, 0),
                iou |-> Iou(0, 1), swapped |-> Iou(0, 1)]

InitPlayer ==
    /\ tracks_ = <<>>
    /\ next_track_id_ = 0
    /\ team_assignments_ = EmptyMap
    /\ last_update = [detections |-> <<>>, predicted |-> <<>>, matches |-> {}]
    /\ km_labels = <<>>
    /\ run = <<>>

InitBall ==
    /\ kf_ = KFnew
    /\ is_tracking_ = FALSE
    /\ frames_since_detection_ = 0
    /\ track_ = NoTrack
    /\ ball_call = [detections |-> <<>>, best_ball |-> 0, predicts |-> 0]
    /\ ball_seen = FALSE
    /\ ball_misses = 0

\* MetricsCalculator::MetricsCalculator and the member initialisers of metrics.h
InitMetrics ==
    /\ player_metrics_ = <<>>
    /\ ball_metrics_ = <<>>
    /\ last_player_positions_ = EmptyMap
    /\ player_total_distances_ = EmptyMap
    /\ last_player_frame_counts_ = EmptyMap
    /\ player_frame_counts_ = EmptyMap
    /\ video_fps_ = 30
    /\ metrics_call = [fps |-> 30, tracks |-> 0]

\* no job has started
InitJob ==
    /\ pc = "idle"
    /\ request = [video |-> Video(FALSE, 0, 0, 0, "empty"), model_ok |-> TRUE,
                  confidence_threshold |-> 1, calibration |-> "empty"]
    /\ response = [status |-> "", progress |-> Progress(0, 1), message |-> <<>>,
                   result |-> NoResult]
    /\ responses = <<>>
    /\ rpc_status = Status("none", "")
    /\ homography_matrix_ = "empty"
    /\ cap = [opened |-> FALSE, pos |-> 0]
    /\ video_fps = 0
    /\ total_frames = 0
    /\ current_frame_idx = 0
    /\ cancelled = FALSE
    /\ frames_after_cancel = 0
    /\ assign_calls = 0
    /\ save_calls = 0
    /\ player_csv = <<>>
    /\ ball_csv = <<>>

Init ==
    /\ InitPlayer
    /\ InitBall
    /\ InitMetrics
    /\ InitJob
    /\ InitLive
    /\ InitHost
    /\ InitCalibration
    /\ InitIou
    /\ last_op = "none"

\* n players standing apart in one row
PlayerRow(n) == [i \in 1..n |-> Detection(Box(20 * (i - 1), 0, 10, 4), 1)]

\* the tracker after construction and one update call that saw n players
InitClusters ==
    \E n \in 0..MaxPlayers, frame \in BandedFrames :
        LET detections == PlayerRow(n)
            made == CreateTracks(<<>>, 0, detections, frame,
                                 [j \in DOMAIN detections |-> FALSE], 1)
        IN /\ tracks_ = made.tracks
           /\ next_track_id_ = made.next_track_id
           /\ team_assignments_ = EmptyMap
           /\ last_update = [detections |-> detections, predicted |-> <<>>,
                             matches |-> {}]
           /\ km_labels = <<>>
           /\ run = [id \in 0..(n - 1) |-> 0]
           /\ InitBall
           /\ InitMetrics
           /\ InitJob
           /\ InitLive
           /\ InitHost
           /\ InitCalibration
           /\ InitIou
           /\ last_op = "update"

Next == UpdateAction

(* any sequence of update calls *)
Spec == Init /\ [][Next]_vars

NextLifecycle ==
    \/ UpdateApart
    \/ AssignTeams

(* any sequence of update and assign_teams calls *)
SpecLifecycle == Init /\ [][NextLifecycle]_vars

NextClusters == AssignTeams

(* assign_teams on a tracker that holds up to MaxPlayers tracks *)
SpecClusters == InitClusters /\ [][NextClusters]_vars

NextBall == BallUpdateAction

NextMetrics == ProcessFrameAction

(* any sequence of MetricsCalculator::process_frame calls *)
SpecMetrics == Init /\ [][NextMetrics]_vars

(* any sequence of BallTracker::update calls *)
SpecBall == Init /\ [][NextBall]_vars

NextBatch ==
    \/ AnalyzeVideoStart
    \/ AnalyzeVideoInit
    \/ AnalyzeVideoOpen
    \/ AnalyzeVideoFrame
    \/ AnalyzeVideoPoll
    \/ AnalyzeVideoFinalize
    \/ Cancel

(* one AnalyzeVideo job, which the caller may cancel at any moment *)
SpecBatch == Init /\ [][NextBatch]_vars

NextLive ==
    \/ ClientSend
    \/ ClientClose
    \/ StreamAnalysisStart
    \/ FeederOpen
    \/ FeederOpened
    \/ FeederWriteFirst
    \/ FeederRead
    \/ FeederWrite
    \/ StreamAnalysisInit
    \/ StreamAnalysisOpen
    \/ StreamAnalysisOpened
    \/ StreamAnalysisFrame
    \/ StreamAnalysisJoin
    \/ StreamAnalysisUnlink
    \/ StreamAnalysisReturn
    \/ Cancel

(* one StreamAnalysis job with its feeder thread and the caller's stream,
   which the caller may cancel at any moment *)
SpecLive == Init /\ [][NextLive]_vars

(* the same, where every thread that can take a step takes one and a caller
   that can still send or close does so *)
SpecLiveFair == Init /\ [][NextLive]_vars /\ WF_vars(NextLive)

NextService ==
    \/ NextBatch
    \/ NextLive

(* one job of either kind *)
SpecService == Init /\ [][NextService]_vars

NextJobs ==
    \/ JobStart
    \/ mkfifo
    \/ YoloV8
    \/ buildEngineOpen
    \/ buildEngineWrite
    \/ create_directories
    \/ JobFrames
    \/ JobExport
    \/ unlink

(* jobs of either kind running at the same time, and the files they name *)
SpecJobs == Init /\ [][NextJobs]_vars

NextCalibration ==
    \/ CalibrationAction
    \/ TransformAction

(* Calibration objects constructed from any file, and their transform calls *)
SpecCalibration == Init /\ [][NextCalibration]_vars

----------------------------------------------------------------------------
(* Properties of PlayerTracker::update *)

\* C1: in one update call no detection index is matched to more than one
\* track and no track is matched to more than one detection.
AssociationInjective ==
    \A m1, m2 \in last_update.matches :
        (m1[1] = m2[1] \/ m1[2] = m2[2]) => m1 = m2

\* two tracks were both above the threshold for one detection; one took it
TwoTracksContendForOneDetection ==
    \E i, k \in DOMAIN last_update.predicted, j \in DOMAIN last_update.detections :
        /\ i < k
        /\ ExceedsIouThreshold(calculate_iou(last_update.predicted[i].last_bbox,
                                             last_update.detections[j].box))
        /\ ExceedsIouThreshold(calculate_iou(last_update.predicted[k].last_bbox,
                                             last_update.detections[j].box))
        /\ <<last_update.predicted[i].id, j>> \in last_update.matches
        /\ <<last_update.predicted[k].id, j>> \notin last_update.matches

IdsIncreasing(ts) == \A i, k \in DOMAIN ts : i < k => ts[i].id < ts[k].id

\* C2: track ids are unique and strictly increasing in creation order, and
\* an id is never assigned twice: every id a step adds to the store is at
\* least the counter before the step, so above every id handed out before,
\* also those of tracks removed since.
IdsNeverReused ==
    [][/\ IdsIncreasing(tracks_')
       /\ \A id \in LiveIds(tracks_') \ LiveIds(tracks_) : id >= next_track_id_
       /\ \A id \in LiveIds(tracks_') : id < next_track_id_'
       /\ next_track_id_' >= next_track_id_]_vars

\* track 0 was removed as stale and the player that came after it is track 1
ReappearedUnderNewId ==
    /\ next_track_id_ = 2
    /\ LiveIds(tracks_) = {1}
    /\ run[0] > max_frames_to_skip_

\* C3: after every update call each live track's frames_since_update is the
\* number of consecutive update calls since its last match or its creation.
FramesSinceUpdateCountsMisses ==
    \A i \in DOMAIN tracks_ :
        tracks_[i].frames_since_update = run[tracks_[i].id]

\* one track has gone unmatched three calls in a row, another was matched
\* in the last call
OneTrackMissedOneMatched ==
    /\ \E i \in DOMAIN tracks_ : tracks_[i].frames_since_update = 3
    /\ \E i \in DOMAIN tracks_ :
         /\ tracks_[i].frames_since_update = 0
         /\ \E m \in last_update.matches : m[1] = tracks_[i].id

\* C4: a track is in get_tracks() exactly as long as it has not gone more
\* than 5 consecutive update calls without a match; it is removed by the
\* 6th such call, not earlier and not later.
RemovedIffMoreThanFiveMisses ==
    \A id \in 0..(next_track_id_ - 1) :
        /\ (\E i \in DOMAIN get_tracks : get_tracks[i][1] = id)
              <=> run[id] <= 5
        /\ (\A i \in DOMAIN get_tracks : get_tracks[i][1] # id) => run[id] = 6

\* one track is still returned after 5 misses, another is gone after 6
FiveMissesKeptSixRemoved ==
    /\ \E i \in DOMAIN get_tracks : run[get_tracks[i][1]] = 5
    /\ \E id \in 0..(next_track_id_ - 1) :
         /\ run[id] = 6
         /\ \A i \in DOMAIN get_tracks : get_tracks[i][1] # id

----------------------------------------------------------------------------
(* The association as the specification words it *)

\* IOU as a number: a/b compared exactly
IouValueGreater(a, b) == a.num * b.den > b.num * a.den
IouValueAbovePoint3(a) == 10 * a.num > 3 * a.den

\* the detection a track takes: among those not consumed, of maximal IOU,
\* the lowest index on ties; 0 if none is left
ReferenceBest(bbox, detections, consumed) ==
    LET cand == DOMAIN detections \ consumed
        iou(j) == calculate_iou(bbox, detections[j].box)
    IN IF cand = {} THEN 0
       ELSE CHOOSE j \in cand :
              \A k \in cand :
                 \/ IouValueGreater(iou(j), iou(k))
                 \/ (~IouValueGreater(iou(k), iou(j)) /\ j <= k)

RECURSIVE GreedyReference(_, _, _, _)
GreedyReference(predicted, detections, i, consumed) ==
    IF i > Len(predicted) THEN {}
    ELSE LET j == ReferenceBest(predicted[i].last_bbox, detections, consumed)
         IN IF j # 0 /\ IouValueAbovePoint3(calculate_iou(predicted[i].last_bbox,
                                                          detections[j].box))
            THEN {<<predicted[i].id, j>>}
                   \cup GreedyReference(predicted, detections, i + 1, consumed \cup {j})
            ELSE GreedyReference(predicted, detections, i + 1, consumed)

\* C5: the association of update is the greedy reference: tracks in
\* creation order, each takes the unconsumed detection of maximal IOU (lowest
\* index on ties), committed iff that IOU is strictly greater than 0.3.
AssociationIsGreedyReference ==
    last_update.matches =
        GreedyReference(last_update.predicted, last_update.detections, 1, {})

----------------------------------------------------------------------------
(* Properties of PlayerTracker::assign_teams *)

\* C8 as stated: after every assign_teams call the keys of the assignment
\* map are the live track ids.
AssignmentKeysAreLiveIds ==
    last_op = "assign_teams" => DOMAIN team_assignments_ = LiveIds(tracks_)

\* C8 as amended: after every assign_teams call made while a track is live
\* the keys of the assignment map are the live track ids.
AssignmentKeysAreLiveIdsWhenTracksLive ==
    (last_op = "assign_teams" /\ tracks_ # <<>>)
        => DOMAIN team_assignments_ = LiveIds(tracks_)

\* assign_teams ran with a track live after another track had been removed
AssignedAfterARemoval ==
    /\ last_op = "assign_teams"
    /\ tracks_ # <<>>
    /\ \E id \in 0..(next_track_id_ - 1) : id \notin LiveIds(tracks_)

\* the clusters k-means produced, as sets of track ids
ProducedClusters ==
    {{tracks_[i].id : i \in {k \in DOMAIN tracks_ : km_labels[k] = l}} :
        l \in Range(km_labels)}

AllLabelled(c, label) ==
    \A id \in c : id \in DOMAIN team_assignments_ /\ team_assignments_[id] = label

\* C9: the labels follow the ranking of the clusters by member count: a
\* largest cluster is "Team A", a largest of the others "Team B", a further
\* cluster is "Referee" if it has at most 2 members and "Unknown" otherwise,
\* and at most one cluster is "Referee".
LabelsFollowClusterSizes ==
    (last_op = "assign_teams" /\ tracks_ # <<>>) =>
        \E a \in ProducedClusters :
            /\ \A c \in ProducedClusters : Cardinality(c) <= Cardinality(a)
            /\ AllLabelled(a, "Team A")
            /\ LET rest == ProducedClusters \ {a}
               IN rest # {} =>
                    \E b \in rest :
                        /\ \A c \in rest : Cardinality(c) <= Cardinality(b)
                        /\ AllLabelled(b, "Team B")
                        /\ \A c \in rest \ {b} :
                              IF Cardinality(c) <= 2
                              THEN AllLabelled(c, "Referee")
                              ELSE AllLabelled(c, "Unknown")
                        /\ Cardinality({c \in rest \ {b} :
                                          AllLabelled(c, "Referee")}) <= 1

\* six tracks clustered 3 / 2 / 1 and labelled Team A / Team B / Referee
ThreeTwoOneLabelled ==
    /\ last_op = "assign_teams"
    /\ Len(tracks_) = 6
    /\ \E a, b, c \in ProducedClusters :
         /\ Cardinality(a) = 3 /\ AllLabelled(a, "Team A")
         /\ Cardinality(b) = 2 /\ AllLabelled(b, "Team B")
         /\ Cardinality(c) = 1 /\ AllLabelled(c, "Referee")

----------------------------------------------------------------------------
(* Properties of BallTracker *)

\* C6: an active ball track stays active through 10 consecutive update calls
\* that find no detection and is dropped by the 11th; get_track() has id 0
\* exactly while the tracker is active and is (-1, zero point) otherwise.
BallKeptTenMissesDroppedAtEleven ==
    /\ is_tracking_ <=> (ball_seen /\ ball_misses <= 10)
    /\ (ball_seen /\ ball_misses >= 11) => ~is_tracking_
    /\ get_track.id = 0 <=> is_tracking_
    /\ ~is_tracking_ => get_track = [id |-> -1, pos |-> ZeroPoint]
    /\ get_track.id \in {0, -1}

\* the ball was tracked and the 11th call in a row without a detection
\* has dropped it
BallDroppedAfterElevenMisses ==
    /\ ball_seen
    /\ ball_misses = 11
    /\ ~is_tracking_
    /\ get_track.id = -1

\* the detection of highest confidence, the first among equals; 0 if the
\* list is empty
HighestConfidenceFirst(detections) ==
    IF detections = <<>> THEN 0
    ELSE CHOOSE i \in DOMAIN detections :
           \A k \in DOMAIN detections :
              \/ detections[i].confidence > detections[k].confidence
              \/ (detections[i].confidence = detections[k].confidence /\ i <= k)

----------------------------------------------------------------------------
(* Properties of MetricsCalculator *)

\* the total_distance_meters of the successive rows of one id never falls
RowTotalsNeverFall ==
    \A i, j \in DOMAIN player_metrics_ :
        (i < j /\ player_metrics_[i].player_id = player_metrics_[j].player_id)
            => player_metrics_[i].total_distance_meters
                 <= player_metrics_[j].total_distance_meters

\* no process_frame call lowers or drops the cumulative distance of an id
KeptTotalsNeverFall ==
    \A id \in DOMAIN player_total_distances_ :
        /\ id \in DOMAIN player_total_distances_'
        /\ player_total_distances_[id] <= player_total_distances_'[id]

\* C10: for every player id the cumulative distance MetricsCalculator keeps,
\* and writes as total_distance_meters in the id's successive rows, never
\* decreases.
CumulativeDistanceNeverDecreases ==
    []RowTotalsNeverFall /\ [][KeptTotalsNeverFall]_vars

\* a player moved, stood still and moved again: three rows, totals 0, 5, 5
\* or 0, 5, 10
PlayerMovedTwice ==
    \E i, j \in DOMAIN player_metrics_ :
        /\ i < j
        /\ player_metrics_[i].player_id = player_metrics_[j].player_id
        /\ player_metrics_[i].total_distance_meters > 0
        /\ player_metrics_[j].distance_meters # player_metrics_[i].distance_meters
        /\ player_metrics_[j].total_distance_meters
             = to_string(player_total_distances_[player_metrics_[j].player_id], 1)

\* the number a row's decimal string stands for, for the whole numbers
FromString(v) == v \div 1000000

\* the rows of id among the rows recorded so far
RowsOf(rows, id) == {i \in DOMAIN rows : rows[i].player_id = id}

\* what C11 says of the row `row` a process_frame(.., fps, ..) call appended
\* while `rows` were the rows recorded before the call
RowFollowsFormula(rows, row, fps) ==
    IF RowsOf(rows, row.player_id) = {}
    THEN /\ row.distance_meters = 0
         /\ row.speed_mps = 0
         /\ row.total_distance_meters = 0
    ELSE LET i == CHOOSE k \in RowsOf(rows, row.player_id) :
                      \A l \in RowsOf(rows, row.player_id) : l <= k
             dx == FromString(row.x) - FromString(rows[i].x)
             dy == FromString(row.y) - FromString(rows[i].y)
             d == FromString(row.distance_meters)
             elapsed_frames == row.frame - rows[i].frame
         IN /\ row.distance_meters = d * 1000000
            /\ d >= 0
            /\ d * d = dx * dx + dy * dy
            \* speed = d / (elapsed_frames / fps), to the 6 decimals of a row
            /\ IF elapsed_frames > 0 /\ fps > 0
               THEN 2 * Abs(row.speed_mps * elapsed_frames - d * fps * 1000000)
                        <= elapsed_frames
               ELSE row.speed_mps = 0
            /\ row.total_distance_meters
                 = rows[i].total_distance_meters + row.distance_meters

\* C11: every row process_frame appends for an id seen before carries the
\* Euclidean distance to the id's last recorded position, speed = distance /
\* elapsed with elapsed = (frame - last frame of the id) / fps (0 when that is
\* not a positive time), and the id's total grown by the distance; the first
\* row of an id carries 0, 0 and 0.
RowsFollowFormula ==
    [][last_op' = "process_frame" =>
         \A k \in 1..metrics_call'.tracks :
             RowFollowsFormula(player_metrics_,
                               player_metrics_'[Len(player_metrics_) + k],
                               metrics_call'.fps)]_vars

\* (0,0) at frame 1, then (3,4) at frame 31 with fps 30: distance 5, speed 5,
\* cumulative distance 5
ThreeFourFiveInOneSecond ==
    /\ metrics_call.fps = 30
    /\ \E i, j \in DOMAIN player_metrics_ :
         /\ i < j
         /\ player_metrics_[i].player_id = player_metrics_[j].player_id
         /\ player_metrics_[i].frame = 1 /\ player_metrics_[j].frame = 31
         /\ player_metrics_[i].x = 0 /\ player_metrics_[i].y = 0
         /\ player_metrics_[j].x = 3000000 /\ player_metrics_[j].y = 4000000
         /\ player_metrics_[j].distance_meters = 5000000
         /\ player_metrics_[j].speed_mps = 5000000
         /\ player_metrics_[j].total_distance_meters = 5000000
         /\ player_total_distances_[player_metrics_[j].player_id] = 5

----------------------------------------------------------------------------
(* Properties of the job functions *)

\* the job status the caller is told: the status of the last message if the
\* call ends OK, CANCELLED if it ends with the CANCELLED code, FAILED if it
\* ends with an error code
ReportedStatus ==
    IF rpc_status.code = "OK"
    THEN IF responses = <<>> THEN "none" ELSE responses[Len(responses)].status
    ELSE IF rpc_status.code = "CANCELLED" THEN "CANCELLED"
    ELSE "FAILED"

CancelledPollStopsJob ==
    /\ [][(pc = "poll" /\ cancelled) =>
             /\ pc' = "returned"
             /\ rpc_status'.code = "CANCELLED"
             /\ cap' = cap
             /\ current_frame_idx' = current_frame_idx
             /\ UNCHANGED <<playerVars, ballVars, metricsVars>>
             /\ assign_calls' = 0 /\ save_calls' = 0]_vars
    /\ [](rpc_status.code = "CANCELLED" =>
             /\ pc = "returned"
             /\ assign_calls = 0 /\ save_calls = 0
             /\ player_csv = <<>> /\ ball_csv = <<>>)

\* a job was cancelled with frames of its video still unread
CancelledBeforeEndOfVideo ==
    /\ rpc_status.code = "CANCELLED"
    /\ current_frame_idx >= 2
    /\ cap.pos < request.video.frames

\* C14: a batch job polls the cancellation flag once after every frame it
\* has processed, so at most one frame is read after the flag was raised.
AtMostOneFrameAfterCancel ==
    /\ [](frames_after_cancel <= 1)
    /\ [][(pc = "loop" /\ pc' # "loop") =>
             pc' \in {"poll", "finalize", "returned"}]_vars
    /\ [][(pc = "loop" /\ current_frame_idx' # current_frame_idx
             /\ rpc_status' = rpc_status) => pc' = "poll"]_vars

\* the flag was raised between two frames; one more frame was processed and
\* the job then returned CANCELLED
OneFrameAfterCancel ==
    /\ frames_after_cancel = 1
    /\ rpc_status.code = "CANCELLED"
    /\ current_frame_idx >= 2

ExceptionEndsJobFailed ==
    (exit_path = "exception") ~>
        (pc = "returned" /\ rpc_status.code = "INTERNAL" /\ rpc_status.message = what)

\* C17: save_to_csv runs at most once in a job and only after the frame loop
\* ended at the end of the stream, in a job that then ends COMPLETED; a job
\* that ends FAILED or CANCELLED has written no file.
ExportOnlyOnSuccess ==
    /\ save_calls <= 1
    /\ save_calls = 1 =>
         /\ cap.pos = request.video.frames
         /\ pc = "returned" /\ rpc_status.code = "OK"
         /\ responses[Len(responses)].status = "COMPLETED"
    /\ (pc = "returned" /\ rpc_status.code # "OK") =>
         /\ save_calls = 0
         /\ player_csv = <<>> /\ ball_csv = <<>>

\* a job failed after rows had been recorded, and nothing was written
FailedWithRowsUnwritten ==
    /\ pc = "returned"
    /\ rpc_status.code = "INTERNAL"
    /\ player_metrics_ # <<>>
    /\ save_calls = 0
    /\ player_csv = <<>>

\* p <= q for progress values (a value with den = 0 and num > 0 is infinite)
ProgressLeq(p, q) ==
    IF q.den = 0 THEN TRUE
    ELSE IF p.den = 0 THEN FALSE
    ELSE p.num * q.den <= q.num * p.den

\* C18: the progress values of the messages of one batch job never decrease.
ProgressNeverDecreases ==
    \A i, j \in DOMAIN responses :
        i < j => ProgressLeq(responses[i].progress, responses[j].progress)

\* 0 <= p <= 1
InUnitInterval(p) == p.den > 0 /\ 0 <= p.num /\ p.num <= p.den

\* C19: every progress value written lies in [0,1], and a PROCESSING message
\* carries frames processed / total frames of the source.
ProgressInUnitInterval ==
    \A i \in DOMAIN responses : InUnitInterval(responses[i].progress)

\* C20: in a live job the pipe is unlinked only after the feeder thread was
\* joined, and a job that started the feeder returns only after both.
JoinedBeforeUnlinkBeforeReturn ==
    /\ unlinked => joined
    /\ joined => feeder_pc = "done"
    /\ (pc = "returned" /\ feeder_pc # "none") =>
          /\ joined /\ unlinked
          /\ ~fifo.exists

\* a live job returned through the exception handler, the feeder joined and
\* the pipe unlinked
ReturnedThroughHandler ==
    /\ pc = "returned"
    /\ exit_path = "exception"
    /\ current_frame_idx >= 1
    /\ joined /\ unlinked

----------------------------------------------------------------------------
(* Properties of StreamAnalysis: termination *)

\* C21: a live job always terminates: once the feeder thread has been started,
\* StreamAnalysis eventually returns, the feeder has returned too and the
\* pipe is released; after a failure the call reports an error
LiveJobTerminates ==
    (feeder_pc = "open")
        ~> (/\ pc = "returned"
            /\ feeder_pc = "done"
            /\ ~fifo.exists
            /\ exit_path # "normal" => rpc_status.code = "INTERNAL")

----------------------------------------------------------------------------
(* Properties of concurrent jobs *)

\* C22: jobs running at the same time share no mutable state: no job writes
\* a file (output location, named pipe, model artefact) that another running
\* job uses, whatever match ids and model paths the requests carry
NoJobWritesWhatAnotherUses == foreign_writes = {}

----------------------------------------------------------------------------
(* Properties of Calibration *)

\* C23: when no valid calibration was loaded (the file is missing or
\* malformed) transform is the identity: every (id, point) it is given comes
\* back unchanged
TransformIsIdentityWithoutCalibration ==
    calibration_path \notin ValidCalibrationFiles
        => transform_call.output = transform_call.input

----------------------------------------------------------------------------
(* Properties of the export and the summary of a batch job *)

\* C24: after the job's assign_teams and export, every exported player row
\* carries in its team column the label team classification gave that player
ExportedRowsCarryAssignedTeam ==
    save_calls > 0 =>
        \A i \in DOMAIN player_csv :
            player_csv[i].player_id \in DOMAIN team_assignments_
                => player_csv[i].team = team_assignments_[player_csv[i].player_id]

\* C25: the exported table holds, for every recorded (frame, player) row, the
\* speed and the per-frame distance process_frame computed for it
ExportReproducesKinematics ==
    (save_calls > 0 /\ player_metrics_ # <<>>) =>
        /\ Len(player_csv) = Len(player_metrics_)
        /\ \A i \in DOMAIN player_csv :
            /\ player_csv[i].frame = player_metrics_[i].frame
            /\ player_csv[i].player_id = player_metrics_[i].player_id
            /\ player_csv[i].distance_meters = player_metrics_[i].distance_meters
            /\ "speed_mps" \in DOMAIN player_csv[i]
            /\ player_csv[i].speed_mps = player_metrics_[i].speed_mps

\* C26: on COMPLETED the summary's number of tracks is the number of player
\* track ids created during the job, removed tracks included
SummaryCountsDistinctTracks ==
    response.status = "COMPLETED"
        => response.result.players_tracked = next_track_id_

\* C27: on COMPLETED the summary's frame count is the number of frames the
\* frame loop read and processed
SummaryCountsFramesProcessed ==
    response.status = "COMPLETED"
        => response.result.total_frames = current_frame_idx

----------------------------------------------------------------------------
(* The association as an optimal matching *)

RECURSIVE GCD(_, _)
GCD(a, b) == IF b = 0 THEN a ELSE GCD(b, a % b)

\* the sum of two IOU values, in lowest terms
IouValueSum(a, b) ==
    LET n == a.num * b.den + b.num * a.den
        d == a.den * b.den
        g == GCD(n, d)
    IN Iou(n \div g, d \div g)

\* the IOU of the pair <<track id, detection index>> in an update call
PairIou(pair, predicted, detections) ==
    LET i == CHOOSE k \in DOMAIN predicted : predicted[k].id = pair[1]
    IN calculate_iou(predicted[i].last_bbox, detections[pair[2]].box)

\* the total IOU of a set of pairs
RECURSIVE TotalIou(_, _, _)
TotalIou(M, predicted, detections) ==
    IF M = {} THEN Iou(0, 1)
    ELSE LET pair == CHOOSE q \in M : TRUE
         IN IouValueSum(PairIou(pair, predicted, detections),
                        TotalIou(M \ {pair}, predicted, detections))

\* no track and no detection is in two pairs
OneToOne(M) == \A p, q \in M : p # q => (p[1] # q[1] /\ p[2] # q[2])

\* the one-to-one matchings of an update call that use only pairs whose IOU
\* is above 0.3
ThresholdMatchings(predicted, detections) ==
    LET pairs == {pair \in {predicted[i].id : i \in DOMAIN predicted}
                             \X DOMAIN detections :
                    IouValueAbovePoint3(PairIou(pair, predicted, detections))}
    IN {M \in SUBSET pairs : OneToOne(M)}

ConsumedBefore(predicted, matches, i) ==
    {m[2] : m \in {q \in matches : \E k \in 1..(i - 1) : predicted[k].id = q[1]}}

----------------------------------------------------------------------------
(* Properties of StreamAnalysis: cancellation *)

\* C29: in live mode the cancellation is polled once per processed frame: at
\* most one frame is processed after the signal was set, and a job that
\* processed a frame after the signal ends CANCELLED
LiveCancelStopsWithinOneFrame ==
    feeder_pc # "none" =>
        /\ frames_after_cancel <= 1
        /\ (pc = "returned" /\ frames_after_cancel >= 1)
              => rpc_status.code = "CANCELLED"

----------------------------------------------------------------------------
(* Properties of StreamAnalysis: the per-frame pipeline *)

\* the detections of one class AnalyzeVideo passes to a tracker for frame idx
\* of the scene under the confidence floor of request r
BatchDetections(r, class_id, idx) ==
    SplitDetections(Scene("play", idx), class_id, r.confidence_threshold, 1)

\* C30: for the same frames and detector outputs live mode passes to the
\* player and ball trackers exactly the detections batch mode passes, whatever
\* confidence floor the batch request carries
LivePassesWhatBatchPasses ==
    (last_op = "StreamAnalysisFrame" /\ pc = "live_loop") =>
        \A r \in Requests :
            /\ last_update.detections
                  = BatchDetections(r, PlayerClass, current_frame_idx)
            /\ ball_call.detections
                  = BatchDetections(r, BallClass, current_frame_idx)

----------------------------------------------------------------------------
(* Properties of StreamAnalysis: the named pipe *)

\* C31: in a live job a failure to create the named pipe or to open it, by
\* the feeder for writing or by the consumer for reading, is terminal: the
\* job function returns with an error reported to the caller and the pipe
\* released.
PipeFailureIsTerminal ==
    (\/ feeder_pc # "none" /\ ~fifo.exists /\ ~unlinked
     \/ error_occurred
     \/ exit_path = "open_failed")
        ~> (/\ pc = "returned"
            /\ rpc_status.code = "INTERNAL"
            /\ ~fifo.exists)

----------------------------------------------------------------------------
(* Properties of PlayerTracker: the update call that removes a track *)

\* C32 as stated: a player track whose counter has come to exceed 5 is still
\* in the store when the update call in which it exceeded 5 returns, and is
\* deleted by the update call that follows.
RemovedByTheFollowingUpdate ==
    \A id \in 0..(next_track_id_ - 1) :
        id \in LiveIds(tracks_) <=> run[id] <= max_frames_to_skip_ + 1

\* C32 as amended: a player track is deleted by the very update call in
\* which its counter comes to exceed 5, the call that follows the one which
\* left the counter at 5: it is in the store with counter 5 before that call
\* and not in the store when that call returns; a call that leaves the
\* counter at 5 or less keeps the track.
RemovedByTheUpdateThatExceeds ==
    [][\A i \in DOMAIN tracks_ :
         LET id == tracks_[i].id
         IN run'[id] = run[id] + 1 =>
              /\ tracks_[i].frames_since_update = run[id]
              /\ run'[id] > max_frames_to_skip_ => id \notin LiveIds(tracks_')
              /\ run'[id] <= max_frames_to_skip_ =>
                   \E k \in DOMAIN tracks_' :
                       /\ tracks_'[k].id = id
                       /\ tracks_'[k].frames_since_update = run'[id]]_vars

\* the last update call took a track's counter from 5 to 6 and the track is
\* not in the store
GoneWhenTheSixthMissReturns ==
    /\ last_op = "update"
    /\ \E id \in 0..(next_track_id_ - 1) :
         /\ run[id] = max_frames_to_skip_ + 1
         /\ id \notin LiveIds(tracks_)
         /\ id \notin {m[1] : m \in last_update.matches}

----------------------------------------------------------------------------
(* Properties of PlayerTracker: update and the team assignments *)

\* C33: PlayerTracker::update never changes the team-assignment map: the
\* entries assign_teams wrote stay as they are, and a track the call creates
\* has no entry (it is unlabeled until the next assign_teams call).
UpdateLeavesTeamAssignments ==
    [][last_op' = "update" =>
          /\ team_assignments_' = team_assignments_
          /\ \A k \in DOMAIN tracks_' :
                tracks_'[k].id \notin LiveIds(tracks_) =>
                    tracks_'[k].id \notin DOMAIN team_assignments_']_vars

\* after assign_teams labelled a track, an update call created another
\* track: the first keeps its label, the second has none
LabelledAndUnlabelledTrack ==
    /\ last_op = "update"
    /\ \E i, k \in DOMAIN tracks_ :
         /\ tracks_[i].id \in DOMAIN team_assignments_
         /\ tracks_[k].id \notin DOMAIN team_assignments_
         /\ tracks_[k].frames_since_update = 0
         /\ tracks_[k].id \notin {m[1] : m \in last_update.matches}

----------------------------------------------------------------------------
(* Properties of the trackers: the motion filter is initialised before use *)

\* the tracking step of a frame (service.cpp lines 107-108 and 249-250): the
\* player detections and the ball detections of the frame go to the two
\* trackers; a frame shows at most one player, at BoxA or at BoxE, and at
\* most one ball, at one of the BallBoxes
TrackFrame ==
    \E player_detections \in SeqUpTo({Detection(BoxA, ConfSteps),
                                      Detection(BoxE, ConfSteps)}, 1),
       ball_detections \in SeqUpTo({Detection(b, ConfSteps) : b \in BallBoxes}, 1) :
        /\ Update(player_detections, UniformFrame(1))
        /\ BallUpdate(ball_detections)
        /\ last_op' = "track"
        /\ UNCHANGED <<team_assignments_, km_labels, metricsVars, jobVars, liveVars,
                       sideVars>>

NextTrackers == TrackFrame

(* any sequence of frames tracked by a PlayerTracker and a BallTracker *)
SpecTrackers == Init /\ [][NextTrackers]_vars

\* C34: predict and correct are never invoked on a motion filter before
\* init: every track of the player store, on whose filters update invokes
\* them, was initialised at creation; BallTracker::update invokes correct,
\* the predict of an occluded frame and the closing predict only on a filter
\* that init was called on, at acquisition or re-acquisition.
FilterInitialisedBeforeUse ==
    /\ [](\A i \in DOMAIN tracks_ : tracks_[i].kf.inited)
    /\ [](is_tracking_ => kf_.inited)
    /\ [][last_op' = "track" =>
            /\ (ball_call'.best_ball # 0 /\ is_tracking_) => kf_.inited
            /\ ball_call'.predicts = 2 => kf_.inited
            /\ ball_call'.predicts >= 1 => kf_'.inited]_vars

\* the last frame was an occluded one for an acquired ball, its filter
\* predicted twice, and its player detection was matched to a track, whose
\* filter was predicted and corrected
BallPredictedAndPlayerCorrected ==
    /\ last_op = "track"
    /\ is_tracking_
    /\ ball_call.best_ball = 0
    /\ ball_call.predicts = 2
    /\ \E i \in DOMAIN tracks_ :
         \E m \in last_update.matches : m[1] = tracks_[i].id

----------------------------------------------------------------------------
(* Properties of calculate_iou *)

NextIou == CalculateIouAction

(* any sequence of calculate_iou calls *)
SpecIou == Init /\ [][NextIou]_vars

----------------------------------------------------------------------------
(* Properties of PlayerTracker: the detections of a call *)

\* the positions in the store of the tracks matched or created by the last call
FreshTracks == {i \in DOMAIN tracks_ : tracks_[i].frames_since_update = 0}

\* C36: after every update call each detection of the call is accounted for
\* by exactly one live track, the track it was matched to or the track
\* created for it: the tracks with frames_since_update = 0 are as many as
\* the detections passed, and each of them carries the box of its detection.
EveryDetectionHasOneTrack ==
    LET detections == last_update.detections
        matches == last_update.matches
    IN /\ Cardinality(FreshTracks) = Len(detections)
       /\ \A j \in DOMAIN detections :
             /\ Cardinality({m \in matches : m[2] = j}) <= 1
             /\ \E i \in FreshTracks :
                   /\ tracks_[i].last_bbox = detections[j].box
                   /\ (\E m \in matches : m[2] = j)
                         <=> <<tracks_[i].id, j>> \in matches

\* a call with two detections matched one to a track and created a track
\* for the other
OneMatchedOneCreated ==
    /\ Len(last_update.detections) = 2
    /\ Cardinality(last_update.matches) = 1
    /\ Cardinality(FreshTracks) = 2
    /\ last_update.predicted # <<>>

----------------------------------------------------------------------------
(* Properties of the trackers: the ranges of the counters *)

\* C37: between update calls every live player track has
\* 0 <= frames_since_update <= 5, and while the ball tracker is active its
\* frames_since_detection_ is between 0 and 10.
CountersWithinThresholds ==
    /\ \A i \in DOMAIN tracks_ :
          /\ tracks_[i].frames_since_update >= 0
          /\ tracks_[i].frames_since_update <= max_frames_to_skip_
    /\ is_tracking_ =>
          /\ frames_since_detection_ >= 0
          /\ frames_since_detection_ <= ball_max_frames_to_skip_

\* a player track and the ball are both at the last count they survive
BothCountersAtThreshold ==
    /\ \E i \in DOMAIN tracks_ :
          tracks_[i].frames_since_update = max_frames_to_skip_
    /\ is_tracking_
    /\ frames_since_detection_ = ball_max_frames_to_skip_

----------------------------------------------------------------------------
(* Properties of BallTracker: the time steps of a call *)

\* C38: each BallTracker::update call that leaves the ball active has
\* advanced the motion filter by exactly one time step, one predict, on a
\* call that selected a detection and on an occluded call alike.
OnePredictPerBallUpdate ==
    (is_tracking_ /\ ball_seen) => ball_call.predicts = 1

----------------------------------------------------------------------------
(* Properties of StreamAnalysis: the feeder thread *)

\* C39: once the feeder has written a chunk flagged is_last_chunk, the first
\* chunk included, it reads no further chunk: it closes its end of the pipe
\* and returns.
LastChunkEndsFeeder ==
    [][LET chunk == IF feeder_pc = "write_first" THEN first_chunk ELSE feeder_chunk
       IN (/\ feeder_pc \in {"write_first", "write"}
           /\ feeder_pc' # feeder_pc
           /\ chunk.is_last_chunk)
              => /\ feeder_pc' = "done"
                 /\ fifo'.writer_closed
                 /\ stream_in' = stream_in]_vars

\* C40: the byte sequence the feeder writes into the pipe is the
\* concatenation of the payloads of the chunks received, in arrival order
\* from the first chunk on, each chunk written once and in full: when the
\* feeder, having opened the pipe, is past the write of a chunk, the pipe has
\* taken the payloads of all the chunks received up to that one.
FeederWritesChunksInOrder ==
    LET received == chunks_sent - Len(stream_in)
        passed == IF feeder_pc = "write" THEN received - 1 ELSE received
    IN (feeder_pc \in {"read", "write", "done"} /\ ~error_occurred)
          => written = [i \in 1..passed |-> i - 1]

====
